---- MODULE Spec2Model ----
(***************************************************************************)
(* Finite model builder (FiniteModelBuilderNonIncremental) and the         *)
(* transparent SAT pre-solver (TransparentSolver) of the prover.           *)
(*                                                                         *)
(* Unsigned machine integers are modelled with the range 0..UINT_MAX and   *)
(* arithmetic modulo UINT_MAX + 1; the range is scaled down so that the    *)
(* wrap-around cases of the code are reached at small model sizes.         *)
(***************************************************************************)
EXTENDS Integers, Sequences, FiniteSets, TLC

\* Largest value of the machine type "unsigned" (scaled).
UINT_MAX == 31

Wrap(x) == x % (UINT_MAX + 1)

Min(a, b) == IF a < b THEN a ELSE b

Max(a, b) == IF a < b THEN b ELSE a

\* A 0-based array (DArray, Stack) holding the elements of the sequence s.
ZSeq(s) == [i \in 0..(Len(s) - 1) |-> s[i + 1]]

ZLen(z) == Cardinality(DOMAIN z)

RECURSIVE Pow(_, _)
Pow(b, e) == IF e = 0 THEN 1 ELSE b * Pow(b, e - 1)

(***************************************************************************)
(* Input problems: the signature, the sorted signature (bounds) and the    *)
(* flattened clauses the builder works on.                                 *)
(*                                                                         *)
(* A literal of a flattened clause is one of                               *)
(*   x = y               kind "eq2",  vars <<x, y>>                        *)
(*   f(x1..xa) = y       kind "feq",  vars <<x1, .., xa, y>>               *)
(*   p(x1..xa)           kind "pred", vars <<x1, .., xa>>                  *)
(* with variables numbered from 0.  Predicate 0 is equality.               *)
(***************************************************************************)
Eq2(pol, x, y) == [kind |-> "eq2", polarity |-> pol, functor |-> 0, vars |-> <<x, y>>]

FEq(pol, f, targs, v) ==
  [kind |-> "feq", polarity |-> pol, functor |-> f, vars |-> targs \o <<v>>]

PredLit(pol, p, args) == [kind |-> "pred", polarity |-> pol, functor |-> p, vars |-> args]

Cl(n, lits) == [varCnt |-> n, lits |-> lits]

\* Unbounded sort.
NoBound == UINT_MAX

\* {P(a), ~P(b)}: flattened a != x | P(x),  b != x | ~P(x).
PrbPaNotPb ==
  [ funArity |-> ZSeq(<<0, 0>>), predArity |-> ZSeq(<<2, 1>>),
    functionBounds |-> ZSeq(<<ZSeq(<<2>>), ZSeq(<<2>>)>>),
    predicateBounds |-> ZSeq(<<ZSeq(<<2, 2>>), ZSeq(<<2>>)>>),
    clauses |-> << Cl(1, <<FEq(FALSE, 0, <<>>, 0), PredLit(TRUE, 1, <<0>>)>>),
                   Cl(1, <<FEq(FALSE, 1, <<>>, 0), PredLit(FALSE, 1, <<0>>)>>) >>,
    isEPR |-> TRUE, complete |-> TRUE ]

\* {a = b, a != b}: flattened a != x | b = x,  a != x | b != x.
PrbAeqBAneqB ==
  [ funArity |-> ZSeq(<<0, 0>>), predArity |-> ZSeq(<<2>>),
    functionBounds |-> ZSeq(<<ZSeq(<<2>>), ZSeq(<<2>>)>>),
    predicateBounds |-> ZSeq(<<ZSeq(<<2, 2>>)>>),
    clauses |-> << Cl(1, <<FEq(FALSE, 0, <<>>, 0), FEq(TRUE, 1, <<>>, 0)>>),
                   Cl(1, <<FEq(FALSE, 0, <<>>, 0), FEq(FALSE, 1, <<>>, 0)>>) >>,
    isEPR |-> TRUE, complete |-> TRUE ]

\* {x = y}.
PrbXeqY ==
  [ funArity |-> ZSeq(<<>>), predArity |-> ZSeq(<<2>>),
    functionBounds |-> ZSeq(<<>>),
    predicateBounds |-> ZSeq(<<ZSeq(<<NoBound, NoBound>>)>>),
    clauses |-> << Cl(2, <<Eq2(TRUE, 0, 1)>>) >>,
    isEPR |-> FALSE, complete |-> TRUE ]

\* {x != y}.
PrbXneqY ==
  [ funArity |-> ZSeq(<<>>), predArity |-> ZSeq(<<2>>),
    functionBounds |-> ZSeq(<<>>),
    predicateBounds |-> ZSeq(<<ZSeq(<<NoBound, NoBound>>)>>),
    clauses |-> << Cl(2, <<Eq2(FALSE, 0, 1)>>) >>,
    isEPR |-> FALSE, complete |-> TRUE ]

\* {x != y, q} over a signature with a constant c and a propositional symbol q.
PrbXneqYConst ==
  [ funArity |-> ZSeq(<<0>>), predArity |-> ZSeq(<<2, 0>>),
    functionBounds |-> ZSeq(<<ZSeq(<<NoBound>>)>>),
    predicateBounds |-> ZSeq(<<ZSeq(<<NoBound, NoBound>>), ZSeq(<<>>)>>),
    clauses |-> << Cl(2, <<Eq2(FALSE, 0, 1)>>), Cl(0, <<PredLit(TRUE, 1, <<>>)>>) >>,
    isEPR |-> FALSE, complete |-> TRUE ]

\* The clause c_i != x | c_j != x stating that two constants differ.
Differ(i, j) == Cl(1, <<FEq(FALSE, i, <<>>, 0), FEq(FALSE, j, <<>>, 0)>>)

\* {a != b, a != c, b != c}.
PrbThreeDistinct ==
  [ funArity |-> ZSeq(<<0, 0, 0>>), predArity |-> ZSeq(<<2>>),
    functionBounds |-> ZSeq(<<ZSeq(<<3>>), ZSeq(<<3>>), ZSeq(<<3>>)>>),
    predicateBounds |-> ZSeq(<<ZSeq(<<3, 3>>)>>),
    clauses |-> << Differ(0, 1), Differ(0, 2), Differ(1, 2) >>,
    isEPR |-> TRUE, complete |-> TRUE ]

\* {a != b, a != c, b != c, q} with a propositional symbol q.
PrbThreeDistinctProp ==
  [ funArity |-> ZSeq(<<0, 0, 0>>), predArity |-> ZSeq(<<2, 0>>),
    functionBounds |-> ZSeq(<<ZSeq(<<3>>), ZSeq(<<3>>), ZSeq(<<3>>)>>),
    predicateBounds |-> ZSeq(<<ZSeq(<<3, 3>>), ZSeq(<<>>)>>),
    clauses |-> << Differ(0, 1), Differ(0, 2), Differ(1, 2),
                   Cl(0, <<PredLit(TRUE, 1, <<>>)>>) >>,
    isEPR |-> TRUE, complete |-> TRUE ]

\* Four pairwise different constants.
PrbFourDistinct ==
  [ funArity |-> ZSeq(<<0, 0, 0, 0>>), predArity |-> ZSeq(<<2>>),
    functionBounds |-> ZSeq(<<ZSeq(<<4>>), ZSeq(<<4>>), ZSeq(<<4>>), ZSeq(<<4>>)>>),
    predicateBounds |-> ZSeq(<<ZSeq(<<4, 4>>)>>),
    clauses |-> << Differ(0, 1), Differ(0, 2), Differ(0, 3),
                   Differ(1, 2), Differ(1, 3), Differ(2, 3) >>,
    isEPR |-> TRUE, complete |-> TRUE ]

\* {x = y, a != x | b != x | c != x}: an EPR problem with an equality clause.
PrbEqClauseEPR ==
  [ funArity |-> ZSeq(<<0, 0, 0>>), predArity |-> ZSeq(<<2>>),
    functionBounds |-> ZSeq(<<ZSeq(<<3>>), ZSeq(<<3>>), ZSeq(<<3>>)>>),
    predicateBounds |-> ZSeq(<<ZSeq(<<3, 3>>)>>),
    clauses |-> << Cl(2, <<Eq2(TRUE, 0, 1)>>),
                   Cl(1, <<FEq(FALSE, 0, <<>>, 0), FEq(FALSE, 1, <<>>, 0),
                           FEq(FALSE, 2, <<>>, 0)>>) >>,
    isEPR |-> TRUE, complete |-> TRUE ]

\* {f(x) != x, f(f(x)) != x}: flattened f(x) != y | f(y) != x.
PrbUnaryF ==
  [ funArity |-> ZSeq(<<1>>), predArity |-> ZSeq(<<2>>),
    functionBounds |-> ZSeq(<<ZSeq(<<NoBound, NoBound>>)>>),
    predicateBounds |-> ZSeq(<<ZSeq(<<NoBound, NoBound>>)>>),
    clauses |-> << Cl(1, <<FEq(FALSE, 0, <<0>>, 0)>>),
                   Cl(2, <<FEq(FALSE, 0, <<0>>, 1), FEq(FALSE, 0, <<1>>, 0)>>) >>,
    isEPR |-> FALSE, complete |-> TRUE ]

\* {P(x) | ~P(x)}.
PrbTautology ==
  [ funArity |-> ZSeq(<<>>), predArity |-> ZSeq(<<2, 1>>),
    functionBounds |-> ZSeq(<<>>),
    predicateBounds |-> ZSeq(<<ZSeq(<<NoBound, NoBound>>), ZSeq(<<NoBound>>)>>),
    clauses |-> << Cl(1, <<PredLit(TRUE, 1, <<0>>), PredLit(FALSE, 1, <<0>>)>>) >>,
    isEPR |-> TRUE, complete |-> TRUE ]

\* {q, ~q | r, f(x) = x} with propositional q, r and a unary f whose argument
\* sort is bounded by 1 and whose result sort is bounded by 2.
PrbGroundAndBounds ==
  [ funArity |-> ZSeq(<<1>>), predArity |-> ZSeq(<<2, 0, 0>>),
    functionBounds |-> ZSeq(<<ZSeq(<<2, 1>>)>>),
    predicateBounds |-> ZSeq(<<ZSeq(<<2, 2>>), ZSeq(<<>>), ZSeq(<<>>)>>),
    clauses |-> << Cl(0, <<PredLit(TRUE, 1, <<>>)>>),
                   Cl(0, <<PredLit(FALSE, 1, <<>>), PredLit(TRUE, 2, <<>>)>>),
                   Cl(2, <<FEq(TRUE, 0, <<0>>, 1), PredLit(FALSE, 2, <<>>)>>) >>,
    isEPR |-> FALSE, complete |-> TRUE ]

\* A problem the option profile declares not FMB-admissible.
PrbIncomplete ==
  [ funArity |-> ZSeq(<<0>>), predArity |-> ZSeq(<<2, 1>>),
    functionBounds |-> ZSeq(<<ZSeq(<<1>>)>>),
    predicateBounds |-> ZSeq(<<ZSeq(<<1, 1>>), ZSeq(<<1>>)>>),
    clauses |-> << Cl(1, <<FEq(FALSE, 0, <<>>, 0), PredLit(TRUE, 1, <<0>>)>>) >>,
    isEPR |-> FALSE, complete |-> FALSE ]

\* {P(a), []}: flattening gives the empty clause.
PrbEmptyClause ==
  [ funArity |-> ZSeq(<<0>>), predArity |-> ZSeq(<<2, 1>>),
    functionBounds |-> ZSeq(<<ZSeq(<<1>>)>>),
    predicateBounds |-> ZSeq(<<ZSeq(<<1, 1>>), ZSeq(<<1>>)>>),
    clauses |-> << Cl(1, <<FEq(FALSE, 0, <<>>, 0), PredLit(TRUE, 1, <<0>>)>>),
                   Cl(0, <<>>) >>,
    isEPR |-> TRUE, complete |-> TRUE ]

\* The same clauses in a problem the option profile does not admit.
PrbEmptyClauseIncomplete == [PrbEmptyClause EXCEPT !.complete = FALSE]

\* {x != y | P(x) | Q(y), ~P(x), ~Q(x)} over a signature with two constants.
PrbNeqOrPQ ==
  [ funArity |-> ZSeq(<<0, 0>>), predArity |-> ZSeq(<<2, 1, 1>>),
    functionBounds |-> ZSeq(<<ZSeq(<<2>>), ZSeq(<<2>>)>>),
    predicateBounds |-> ZSeq(<<ZSeq(<<2, 2>>), ZSeq(<<2>>), ZSeq(<<2>>)>>),
    clauses |-> << Cl(2, <<Eq2(FALSE, 0, 1), PredLit(TRUE, 1, <<0>>),
                           PredLit(TRUE, 2, <<1>>)>>),
                   Cl(1, <<PredLit(FALSE, 1, <<0>>)>>),
                   Cl(1, <<PredLit(FALSE, 2, <<0>>)>>) >>,
    isEPR |-> TRUE, complete |-> TRUE ]

\* {f(x) != x} over a signature with a constant a and unary f, g, h.
PrbConstThreeFunctions ==
  [ funArity |-> ZSeq(<<0, 1, 1, 1>>), predArity |-> ZSeq(<<2>>),
    functionBounds |-> ZSeq(<<ZSeq(<<NoBound>>), ZSeq(<<NoBound, NoBound>>),
                              ZSeq(<<NoBound, NoBound>>), ZSeq(<<NoBound, NoBound>>)>>),
    predicateBounds |-> ZSeq(<<ZSeq(<<NoBound, NoBound>>)>>),
    clauses |-> << Cl(1, <<FEq(FALSE, 1, <<0>>, 0)>>) >>,
    isEPR |-> FALSE, complete |-> TRUE ]

Problems ==
  << PrbPaNotPb, PrbAeqBAneqB, PrbXeqY, PrbXneqY, PrbXneqYConst, PrbThreeDistinct,
     PrbThreeDistinctProp, PrbFourDistinct, PrbEqClauseEPR, PrbUnaryF,
     PrbTautology, PrbGroundAndBounds, PrbIncomplete, PrbEmptyClause,
     PrbEmptyClauseIncomplete, PrbNeqOrPQ, PrbConstThreeFunctions >>


VARIABLES
  prb,               \* index of the input problem
  pc,                \* position of the main loop
  isComplete,        \* _isComplete
  maxModelSize,      \* _maxModelSize
  constantCount,     \* _constantCount
  modelSize,         \* the local modelSize of runImpl
  f_offsets,         \* f_offsets
  p_offsets,         \* p_offsets
  varCnt,            \* the variable count given to the solver's ensureVarCount
  clausesToBeAdded,  \* _clausesToBeAdded, each clause tagged with its family
  idx,               \* the clause or function an enumeration is working on
  grounding,         \* the grounding array of the running enumeration
  families,          \* the clause families emitted in this loop iteration
  solved,            \* the status solve() reported for size 1, 2, ...
  assignment,        \* the true variables of the model the solver found
  timeLimitReached,  \* env.timeLimitReached()
  result             \* the result of the run

fmbVars ==
  << prb, pc, isComplete, maxModelSize, constantCount, modelSize, f_offsets,
     p_offsets, varCnt, clausesToBeAdded, idx, grounding, families, solved,
     assignment, timeLimitReached, result >>

\* The state of a TransparentSolver and of the solver it wraps.
VARIABLES
  varInfos,          \* _vars: the VarInfo of each variable
  assumptions,       \* _assumptions
  innerClauses,      \* the clauses the inner solver was given
  innerAssumptions,  \* the assumptions the inner solver holds
  addedClauses,      \* every clause passed to addClauses
  givenAssumptions,  \* the literals passed to addAssumption since the last retract
  calls,             \* the number of calls made
  noAssumption,      \* _vars and the inner clauses after the same addClauses calls alone
  lastCall,          \* the latest call, and how many times in a row it was made
  innerCalls,        \* the calls the latest call made on the inner solver, in order
  onlyPropagateArg   \* the onlyPropagate argument of the latest call

tsVars ==
  << varInfos, assumptions, innerClauses, innerAssumptions, addedClauses,
     givenAssumptions, calls, noAssumption, lastCall, innerCalls,
     onlyPropagateArg >>

\* The state of an AIGDefinitionIntroducer or of an AIGInliner.
VARIABLES
  aig_pc,            \* where scan stands
  aigUnits,          \* the units given to scan
  toplevelAIGs,      \* _toplevelAIGs: how many times each AIG was pushed
  defs,              \* _defs: the nodes that have a name
  refAIGInfos,       \* _refAIGInfos: the NodeInfo of each node of _refAIGs
  newDefs,           \* _newDefs: the nodes the new defining units define
  aigIdx,            \* the index i of doSecondRefAIGPass, counted from 1
  eqInfos,           \* the inliner's _defs: stored left-hand side to active right-hand side
  relevantAigs,      \* the inliner's relevantAigs
  inlMap,            \* _inlMap
  simplMap,          \* _simplMap
  applied            \* the latest call of the inliner's apply and its result

aigVars ==
  << aig_pc, aigUnits, toplevelAIGs, defs, refAIGInfos, newDefs, aigIdx,
     eqInfos, relevantAigs, inlMap, simplMap, applied >>

vars == << fmbVars, tsVars, aigVars >>

Prb == Problems[prb]

Functions == DOMAIN Prb.funArity

\* Predicate 0 is equality and gets no propositional variables.
Predicates == DOMAIN Prb.predArity \ {0}

RECURSIVE Reverse(_)
Reverse(s) == IF s = <<>> THEN <<>> ELSE Reverse(Tail(s)) \o <<Head(s)>>

IsGround(c) == c.varCnt = 0

IsNonGround(c) == c.varCnt # 0

isRefutation_Never(c) == FALSE

\* The empty clause.
isRefutation(c) == Len(c.lits) = 0

\* _groundClauses and _clauses: init() conses every clause to the front.
GroundClauses == Reverse(SelectSeq(Prb.clauses, IsGround))

Clauses == Reverse(SelectSeq(Prb.clauses, IsNonGround))

IsPosEq(l) == l.kind = "eq2" /\ l.polarity /\ l.vars[1] # l.vars[2]

\* The number of leading literals that are positive equalities of two
\* different variables.
RECURSIVE PosEqsFrom(_, _)
PosEqsFrom(c, i) ==
  IF i > Len(c.lits) \/ ~IsPosEq(c.lits[i]) THEN 0 ELSE 1 + PosEqsFrom(c, i + 1)

PosEqs(c) == PosEqsFrom(c, 1)

TightensMaxModelSize(c, max) == PosEqs(c) = Len(c.lits) /\ c.varCnt < max

\* _maxModelSize after init() has seen the clauses cs[i..] with bound max so far.
RECURSIVE InitMaxModelSize(_, _, _)
InitMaxModelSize(cs, i, max) ==
  IF i > Len(cs) THEN max
  ELSE IF IsNonGround(cs[i]) /\ TightensMaxModelSize(cs[i], max)
       THEN InitMaxModelSize(cs, i + 1, cs[i].varCnt)
       ELSE InitMaxModelSize(cs, i + 1, max)

InitConstantCount == Cardinality({f \in Functions : Prb.funArity[f] = 0})

\* The pairs <<variable, bound>> a literal gives, in the order init() meets them.
LitBounds(l) ==
  IF l.kind = "eq2" THEN <<>>
  ELSE IF l.kind = "feq"
  THEN LET a == Len(l.vars) - 1
           fbound == Prb.functionBounds[l.functor]
       IN  <<  <<l.vars[a + 1], fbound[0]>> >> \o [j \in 1..a |-> <<l.vars[j], fbound[j]>>]
  ELSE [j \in 1..Len(l.vars) |-> <<l.vars[j], Prb.predicateBounds[l.functor][j - 1]>>]

RECURSIVE AllLitBounds(_, _)
AllLitBounds(c, i) ==
  IF i > Len(c.lits) THEN <<>> ELSE LitBounds(c.lits[i]) \o AllLitBounds(c, i + 1)

\* The first bound recorded for variable v, 0 when there is none.
RECURSIVE FirstBound(_, _, _)
FirstBound(bs, i, v) ==
  IF i > Len(bs) THEN 0
  ELSE IF bs[i][1] = v THEN bs[i][2] ELSE FirstBound(bs, i + 1, v)

\* _clauseBounds of clause c.
ClauseBounds(c) ==
  LET bs == AllLitBounds(c, 1) IN [v \in 0..(c.varCnt - 1) |-> FirstBound(bs, 1, v)]

(***************************************************************************)
(* reset(size): the offsets of the blocks of propositional variables.      *)
(***************************************************************************)

\* The values "unsigned add = pow(b, e)" can get: the conversion of a double
\* that does not fit the unsigned type is undefined.
PowToUnsigned(b, e) ==
  LET v == Pow(b, e)
  IN  IF v <= UINT_MAX THEN {v} ELSE {v % (UINT_MAX + 1), 0, UINT_MAX}

FunctionBlockExp(arity) == arity + 2

PredicateBlockExp(arity) == arity + 1

\* The symbols in the order reset() walks them.
RECURSIVE ZToSeq(_, _)
ZToSeq(z, i) == IF i >= ZLen(z) THEN <<>> ELSE <<z[i]>> \o ZToSeq(z, i + 1)

ResetSymbols ==
  [f \in 1..ZLen(Prb.funArity) |->
      [isFunction |-> TRUE, id |-> f - 1, exp |-> FunctionBlockExp(Prb.funArity[f - 1])]]
  \o
  [p \in 1..(ZLen(Prb.predArity) - 1) |->
      [isFunction |-> FALSE, id |-> p, exp |-> PredicateBlockExp(Prb.predArity[p])]]

OffsetOverflows(add, offsets) == UINT_MAX - add < offsets

VarCountFor(offsets) == Wrap(offsets + 1)

\* The outcomes of reset(size) from symbol k on.
RECURSIVE ResetFrom(_, _, _, _, _)
ResetFrom(size, k, offsets, fo, po) ==
  IF k > Len(ResetSymbols)
  THEN {[ok |-> TRUE, f_offsets |-> fo, p_offsets |-> po, offsets |-> offsets,
         varCnt |-> VarCountFor(offsets)]}
  ELSE LET s == ResetSymbols[k]
           fo2 == IF s.isFunction THEN [fo EXCEPT ![s.id] = offsets] ELSE fo
           po2 == IF s.isFunction THEN po ELSE [po EXCEPT ![s.id] = offsets]
       IN  UNION { IF OffsetOverflows(add, offsets)
                   THEN {[ok |-> FALSE, f_offsets |-> fo2, p_offsets |-> po2,
                          offsets |-> offsets, varCnt |-> varCnt]}
                   ELSE ResetFrom(size, k + 1, offsets + add, fo2, po2)
                 : add \in PowToUnsigned(size, s.exp) }

reset(size) == ResetFrom(size, 1, 1, f_offsets, p_offsets)

(***************************************************************************)
(* getSATLiteral and addSATClause.                                         *)
(***************************************************************************)
RECURSIVE VarOf(_, _, _, _, _)
VarOf(use, i, var, mult, size) ==
  IF i > Len(use) THEN var
  ELSE VarOf(use, i + 1, Wrap(var + mult * (use[i] - 1)), Wrap(mult * size), size)

OffsetOf(f, isFunction) == IF isFunction THEN f_offsets[f] ELSE p_offsets[f]

getSATLiteral(f, use, polarity, isFunction, size) ==
  [var |-> VarOf(use, 1, OffsetOf(f, isFunction), 1, size), polarity |-> polarity]

Range(s) == {s[i] : i \in DOMAIN s}

IsTautology(lits) == \E l \in lits : [l EXCEPT !.polarity = ~l.polarity] \in lits

\* _clausesToBeAdded after addSATClause of each clause of cls (sequences of
\* literals): duplicate literals go, a clause with complementary literals is
\* not added.
addSATClauses(pending, family, cls) ==
  pending \o
  SelectSeq([i \in 1..Len(cls) |-> [family |-> family, lits |-> Range(cls[i])]],
            LAMBDA c : ~IsTautology(c.lits))


(***************************************************************************)
(* The enumerations of groundings.                                         *)
(***************************************************************************)

\* A fresh grounding array of n places: all 1, the last place 0.
InitGrounding(n) == [i \in 0..(n - 1) |-> IF i = n - 1 THEN 0 ELSE 1]

\* One run of the loop "for(i = last; i+1 != 0; i--)" of addNewInstances and
\* addNewTotalityDefs from place i on: places at their bound go back to 1, the
\* first other place is incremented and gives the next grounding; the
\* enumeration is done when the loop runs out.
RECURSIVE NextGrounding(_, _, _)
NextGrounding(g, mins, i) ==
  IF i < 0 THEN [done |-> TRUE, g |-> g]
  ELSE IF g[i] = mins[i] THEN NextGrounding([g EXCEPT ![i] = 1], mins, i - 1)
  ELSE [done |-> FALSE, g |-> [g EXCEPT ![i] = Wrap(g[i] + 1)]]

\* The same loop in addNewFunctionalDefs: a grounding with equal result values
\* (places 0 and 1) is skipped by "continue", which goes on with place i - 1.
RECURSIVE NextFuncGrounding(_, _, _)
NextFuncGrounding(g, mins, i) ==
  IF i < 0 THEN [done |-> TRUE, g |-> g]
  ELSE IF g[i] = mins[i] THEN NextFuncGrounding([g EXCEPT ![i] = 1], mins, i - 1)
  ELSE LET g2 == [g EXCEPT ![i] = Wrap(g[i] + 1)]
       IN  IF g2[0] = g2[1] THEN NextFuncGrounding(g2, mins, i - 1)
           ELSE [done |-> FALSE, g |-> g2]

\* addGroundClauses: the SAT clauses of the ground clauses.
GroundSATClauses ==
  [i \in 1..Len(GroundClauses) |->
     [j \in 1..Len(GroundClauses[i].lits) |->
        LET l == GroundClauses[i].lits[j]
        IN  getSATLiteral(l.functor, <<>>, l.polarity, FALSE, 0)]]

\* addNewInstances: the bounds of the places of clause c at this size.
InstanceMins(c, size) ==
  LET bounds == ClauseBounds(c) IN [i \in 0..(c.varCnt - 1) |-> Min(bounds[i], size)]

IsEq2(l) == l.kind = "eq2"

IsNotEq2(l) == l.kind # "eq2"

InstanceSkipped_Always(c, g) == TRUE

\* A two-variable equality the grounding makes true: the instance is skipped.
InstanceSkipped(c, g) ==
  \E i \in 1..Len(c.lits) :
     LET l == c.lits[i]
         equal == g[l.vars[1]] = g[l.vars[2]]
     IN  IsEq2(l) /\ ((l.polarity /\ equal) \/ (~l.polarity /\ ~equal))

InstanceLits_NoneKept(c, g, size) == <<>>

\* The SAT literals of the instance of c under g; the two-variable
\* equalities the grounding makes false are left out.
InstanceLits(c, g, size) ==
  LET ls == SelectSeq(c.lits, IsNotEq2)
  IN  [i \in 1..Len(ls) |->
         getSATLiteral(ls[i].functor, [j \in 1..Len(ls[i].vars) |-> g[ls[i].vars[j]]],
                       ls[i].polarity, ls[i].kind = "feq", size)]

\* addNewFunctionalDefs: the bounds of the places of the grounding of f.
FuncDefMins(f, size) ==
  LET arity == Prb.funArity[f]
      bounds == Prb.functionBounds[f]
  IN  [i \in 0..(arity + 1) |->
         IF i < arity THEN Min(bounds[i + 1], size) ELSE Min(bounds[0], size)]

\* The clause f(x) != y | f(x) != z for the grounding g = (y, z, x).
FuncDefLits(f, g, size) ==
  LET arity == Prb.funArity[f]
      args == [k \in 1..arity |-> g[k + 1]]
  IN  << getSATLiteral(f, args \o <<g[0]>>, FALSE, TRUE, size),
         getSATLiteral(f, args \o <<g[1]>>, FALSE, TRUE, size) >>

\* addNewTotalityDefs: the bounds of the argument places of f.
TotalityMins(f, size) ==
  LET bounds == Prb.functionBounds[f]
  IN  [i \in 0..(Prb.funArity[f] - 1) |-> Min(bounds[i + 1], size)]

\* The clause f(g) = 1 | ... | f(g) = min(size, result bound).
TotalityLits(f, g, size) ==
  LET arity == Prb.funArity[f]
      args == [k \in 1..arity |-> g[k - 1]]
  IN  [j \in 1..Min(size, Prb.functionBounds[f][0]) |->
         getSATLiteral(f, args \o <<j>>, TRUE, TRUE, size)]

\* The stacks of constants and of other functions handed to
\* addNewSymmetryAxioms (one sort holding every symbol).
Constants == SelectSeq(ZToSeq([f \in Functions |-> f], 0), LAMBDA f : Prb.funArity[f] = 0)

NonConstants == SelectSeq(ZToSeq([f \in Functions |-> f], 0), LAMBDA f : Prb.funArity[f] # 0)

SymmetryClauses_None(size) == <<>>

SymmetryClauses_NoCanonicity(size) ==
  IF Len(Constants) < size THEN <<>>
  ELSE << [i \in 1..size |-> getSATLiteral(Constants[size], <<i>>, TRUE, TRUE, size)] >>

\* addNewSymmetryAxioms(size, constants, functions): the clauses it adds.
SymmetryClauses(size) ==
  LET n == Len(Constants)
  IN  IF n < size
      THEN IF n = 0 \/ Len(NonConstants) <= size \div n THEN <<>>
           ELSE LET function == NonConstants[(size \div n) + 1]
                    arity == Prb.funArity[function]
                    ci == size % n
                IN  << [i \in 1..size |->
                          getSATLiteral(function, [k \in 1..arity |-> ci] \o <<i>>,
                                        TRUE, TRUE, size)] >>
      ELSE LET c1 == Constants[size]
           IN  << [i \in 1..size |-> getSATLiteral(c1, <<i>>, TRUE, TRUE, size)] >>
               \o
               [d \in 1..(size - 1) |->
                  << getSATLiteral(c1, <<d + 1>>, FALSE, TRUE, size) >>
                  \o [i \in 1..(size - 1) |->
                        getSATLiteral(Constants[i], <<d>>, TRUE, TRUE, size)]]

RECURSIVE SymmetryUpTo(_, _)
SymmetryUpTo(s, size) ==
  IF s > size THEN <<>> ELSE SymmetryClauses(s) \o SymmetryUpTo(s + 1, size)

(***************************************************************************)
(* The SAT solver the builder owns.                                        *)
(***************************************************************************)
PendingVars == UNION {{l.var : l \in c.lits} : c \in Range(clausesToBeAdded)}

\* Every variable handed to the solver is inside the universe ensureVarCount set.
VarsInUniverse == \A v \in PendingVars : 1 <= v /\ v < varCnt

Satisfies(A, lits) == \E l \in lits : l.polarity = (l.var \in A)

Models ==
  IF \E c \in Range(clausesToBeAdded) : c.lits = {} THEN {}
  ELSE {A \in SUBSET PendingVars : \A c \in Range(clausesToBeAdded) : Satisfies(A, c.lits)}

\* What solve() can report, with the assignment it leaves: the verdict of a
\* complete solver, and anything when it was handed variables it does not have.
SolveOutcomes ==
  IF VarsInUniverse
  THEN IF Models = {} THEN {[status |-> "UNSATISFIABLE", model |-> {}]}
       ELSE {[status |-> "SATISFIABLE", model |-> A] : A \in Models}
  ELSE {[status |-> "UNSATISFIABLE", model |-> {}],
        [status |-> "SATISFIABLE", model |-> {}]}


(***************************************************************************)
(* The run: the constructor, init() and the loop of runImpl().             *)
(***************************************************************************)
\* No call was made yet.
NoCall ==
  [op |-> "none", lit |-> [var |-> 0, polarity |-> FALSE], clauses |-> <<>>, times |-> 0]

\* The record of a call of op with the literal lit or the clauses cit, made
\* after the call last.
CallAfter(last, op, lit, cit) ==
  [op |-> op, lit |-> lit, clauses |-> cit,
   times |-> IF last.op = op /\ last.lit = lit /\ last.clauses = cit
             THEN last.times + 1 ELSE 1]

\* A call on the inner solver: _inner->addClauses(clauses, onlyPropagate),
\* _inner->addAssumption(lit, onlyPropagate) or _inner->retractAllAssumptions().
InnerCall(op, lit, clauses, onlyPropagate) ==
  [op |-> op, lit |-> lit, clauses |-> clauses, onlyPropagate |-> onlyPropagate]

\* No TransparentSolver takes part in a run of the builder.
TSUnused ==
  /\ varInfos = <<>>
  /\ assumptions = <<>>
  /\ innerClauses = {}
  /\ innerAssumptions = <<>>
  /\ addedClauses = {}
  /\ givenAssumptions = {}
  /\ calls = 0
  /\ noAssumption = [vars |-> <<>>, inner |-> {}]
  /\ lastCall = NoCall
  /\ innerCalls = <<>>
  /\ onlyPropagateArg = FALSE

\* No AIGDefinitionIntroducer and no AIGInliner takes part in the run.
AIGUnused ==
  /\ aig_pc = "unused"
  /\ aigUnits = <<>>
  /\ toplevelAIGs = <<>>
  /\ defs = {}
  /\ refAIGInfos = <<>>
  /\ newDefs = <<>>
  /\ aigIdx = 0
  /\ eqInfos = <<>>
  /\ relevantAigs = <<>>
  /\ inlMap = <<>>
  /\ simplMap = <<>>
  /\ applied = [a |-> <<>>, res |-> <<>>]

FMBInit ==
  /\ AIGUnused
  /\ prb \in 1..Len(Problems)
  /\ pc = "constructed"
  /\ isComplete = Problems[prb].complete
  /\ maxModelSize = UINT_MAX
  /\ constantCount = 0
  /\ modelSize = 0
  /\ f_offsets = [f \in DOMAIN Problems[prb].funArity |-> 0]
  /\ p_offsets = [q \in DOMAIN Problems[prb].predArity |-> 0]
  /\ varCnt = 0
  /\ clausesToBeAdded = <<>>
  /\ idx = 0
  /\ grounding = <<>>
  /\ families = <<>>
  /\ solved = <<>>
  /\ assignment = {}
  /\ timeLimitReached = FALSE
  /\ result = "NONE"
  /\ TSUnused

Return(r) == pc' = "done" /\ result' = r

\* init(): a refutation among the flattened clauses is thrown; otherwise the
\* clauses are stored and _maxModelSize and _constantCount are set.
init ==
  /\ UNCHANGED <<tsVars, aigVars>>
  /\ pc = "constructed"
  /\ IF ~isComplete
     THEN /\ pc' = "initialised"
          /\ UNCHANGED <<maxModelSize, constantCount, result>>
     ELSE IF \E i \in 1..Len(Prb.clauses) : isRefutation(Prb.clauses[i])
     THEN /\ Return("REFUTATION")
          /\ UNCHANGED <<maxModelSize, constantCount>>
     ELSE /\ pc' = "initialised"
          /\ maxModelSize' = InitMaxModelSize(Prb.clauses, 1, maxModelSize)
          /\ constantCount' = InitConstantCount
          /\ UNCHANGED result
  /\ UNCHANGED <<prb, isComplete, modelSize, f_offsets, p_offsets, varCnt,
                 clausesToBeAdded, idx, grounding, families, solved, assignment,
                 timeLimitReached>>

EPRMaxModelSize_One(max, constants) == 1

\* _maxModelSize of an EPR problem.
EPRMaxModelSize(max, constants) == constants

\* runImpl() up to the loop.
runImplStart ==
  /\ UNCHANGED <<tsVars, aigVars>>
  /\ pc = "initialised"
  /\ IF ~isComplete
     THEN /\ Return("UNKNOWN")
          /\ UNCHANGED <<maxModelSize, modelSize, f_offsets, p_offsets, varCnt>>
     ELSE /\ maxModelSize' = IF Prb.isEPR THEN EPRMaxModelSize(maxModelSize, constantCount)
                             ELSE maxModelSize
          /\ modelSize' = 1
          /\ \E out \in reset(1) :
               /\ f_offsets' = out.f_offsets
               /\ p_offsets' = out.p_offsets
               /\ varCnt' = out.varCnt
          /\ pc' = "top"
          /\ UNCHANGED result
  /\ UNCHANGED <<prb, isComplete, constantCount, clausesToBeAdded, idx, grounding,
                 families, solved, assignment, timeLimitReached>>

PollDeadline_Never(reached) == FALSE

\* env.timeLimitReached() as the loop polls it.
PollDeadline(reached) == reached

\* The head of the loop: the deadline is polled.
loopTop ==
  /\ UNCHANGED <<tsVars, aigVars>>
  /\ pc = "top"
  /\ IF PollDeadline(timeLimitReached)
     THEN Return("TIME_LIMIT") /\ UNCHANGED families
     ELSE pc' = "ground" /\ families' = <<>> /\ UNCHANGED result
  /\ UNCHANGED <<prb, isComplete, maxModelSize, constantCount, modelSize, f_offsets,
                 p_offsets, varCnt, clausesToBeAdded, idx, grounding, solved,
                 assignment, timeLimitReached>>

\* An encoding pass ends: the next one has not begun (idx = 0).
EndPass(family, next) ==
  /\ pc' = next
  /\ families' = Append(families, family)
  /\ idx' = 0
  /\ grounding' = <<>>

addGroundClauses ==
  /\ UNCHANGED <<tsVars, aigVars>>
  /\ pc = "ground"
  /\ clausesToBeAdded' = addSATClauses(clausesToBeAdded, "ground", GroundSATClauses)
  /\ EndPass("ground", "instances")
  /\ UNCHANGED <<prb, isComplete, maxModelSize, constantCount, modelSize, f_offsets,
                 p_offsets, varCnt, solved, assignment, timeLimitReached, result>>

\* The grounding array the enumeration of clause i of cs starts from.
GroundingFor(cs, i) == IF i <= Len(cs) THEN InitGrounding(cs[i].varCnt) ELSE <<>>

\* addNewInstances(modelSize), one grounding a step; idx is the clause at work.
addNewInstances ==
  /\ UNCHANGED <<tsVars, aigVars>>
  /\ pc = "instances"
  /\ IF idx = 0
     THEN /\ idx' = 1
          /\ grounding' = GroundingFor(Clauses, 1)
          /\ UNCHANGED <<pc, families, clausesToBeAdded>>
     ELSE IF idx > Len(Clauses)
     THEN EndPass("instances", "funcdefs") /\ UNCHANGED clausesToBeAdded
     ELSE LET c == Clauses[idx]
              next == NextGrounding(grounding, InstanceMins(c, modelSize), c.varCnt - 1)
          IN  /\ UNCHANGED <<pc, families>>
              /\ IF next.done
                 THEN /\ idx' = idx + 1
                      /\ grounding' = GroundingFor(Clauses, idx + 1)
                      /\ UNCHANGED clausesToBeAdded
                 ELSE /\ idx' = idx
                      /\ grounding' = next.g
                      /\ clausesToBeAdded' =
                           IF InstanceSkipped(c, next.g) THEN clausesToBeAdded
                           ELSE addSATClauses(clausesToBeAdded, "instances",
                                              <<InstanceLits(c, next.g, modelSize)>>)
  /\ UNCHANGED <<prb, isComplete, maxModelSize, constantCount, modelSize, f_offsets,
                 p_offsets, varCnt, solved, assignment, timeLimitReached, result>>

\* The grounding array the enumeration for function f starts from.
FuncGroundingFor(f) ==
  IF f \in Functions THEN InitGrounding(Prb.funArity[f] + 2) ELSE <<>>

\* addNewFunctionalDefs(modelSize), one grounding a step; idx - 1 is the
\* function at work.
addNewFunctionalDefs ==
  /\ UNCHANGED <<tsVars, aigVars>>
  /\ pc = "funcdefs"
  /\ IF idx = 0
     THEN /\ idx' = 1
          /\ grounding' = FuncGroundingFor(0)
          /\ UNCHANGED <<pc, families, clausesToBeAdded>>
     ELSE IF idx - 1 \notin Functions
     THEN EndPass("funcdefs", "symmetry") /\ UNCHANGED clausesToBeAdded
     ELSE LET f == idx - 1
              next == NextFuncGrounding(grounding, FuncDefMins(f, modelSize),
                                        Prb.funArity[f] + 1)
          IN  /\ UNCHANGED <<pc, families>>
              /\ IF next.done
                 THEN /\ idx' = idx + 1
                      /\ grounding' = FuncGroundingFor(f + 1)
                      /\ UNCHANGED clausesToBeAdded
                 ELSE /\ idx' = idx
                      /\ grounding' = next.g
                      /\ clausesToBeAdded' =
                           addSATClauses(clausesToBeAdded, "funcdefs",
                                         <<FuncDefLits(f, next.g, modelSize)>>)
  /\ UNCHANGED <<prb, isComplete, maxModelSize, constantCount, modelSize, f_offsets,
                 p_offsets, varCnt, solved, assignment, timeLimitReached, result>>

\* for(s = 1; s <= modelSize; s++) addNewSymmetryAxioms(s).
addNewSymmetryAxioms ==
  /\ UNCHANGED <<tsVars, aigVars>>
  /\ pc = "symmetry"
  /\ clausesToBeAdded' =
       addSATClauses(clausesToBeAdded, "symmetry", SymmetryUpTo(1, modelSize))
  /\ EndPass("symmetry", "totality")
  /\ UNCHANGED <<prb, isComplete, maxModelSize, constantCount, modelSize, f_offsets,
                 p_offsets, varCnt, solved, assignment, timeLimitReached, result>>

\* The grounding array the enumeration for function f starts from.
TotalityGroundingFor(f) ==
  IF f \in Functions THEN InitGrounding(Prb.funArity[f]) ELSE <<>>

\* addNewTotalityDefs(modelSize), one clause a step; idx - 1 is the function
\* at work.
addNewTotalityDefs ==
  /\ UNCHANGED <<tsVars, aigVars>>
  /\ pc = "totality"
  /\ IF idx = 0
     THEN /\ idx' = 1
          /\ grounding' = TotalityGroundingFor(0)
          /\ UNCHANGED <<pc, families, clausesToBeAdded>>
     ELSE IF idx - 1 \notin Functions
     THEN EndPass("totality", "solve") /\ UNCHANGED clausesToBeAdded
     ELSE IF Prb.funArity[idx - 1] = 0
     THEN /\ clausesToBeAdded' =
               addSATClauses(clausesToBeAdded, "totality",
                             <<TotalityLits(idx - 1, grounding, modelSize)>>)
          /\ idx' = idx + 1
          /\ grounding' = TotalityGroundingFor(idx)
          /\ UNCHANGED <<pc, families>>
     ELSE LET f == idx - 1
              next == NextGrounding(grounding, TotalityMins(f, modelSize),
                                    Prb.funArity[f] - 1)
          IN  /\ UNCHANGED <<pc, families>>
              /\ IF next.done
                 THEN /\ idx' = idx + 1
                      /\ grounding' = TotalityGroundingFor(f + 1)
                      /\ UNCHANGED clausesToBeAdded
                 ELSE /\ idx' = idx
                      /\ grounding' = next.g
                      /\ clausesToBeAdded' =
                           addSATClauses(clausesToBeAdded, "totality",
                                         <<TotalityLits(f, next.g, modelSize)>>)
  /\ UNCHANGED <<prb, isComplete, maxModelSize, constantCount, modelSize, f_offsets,
                 p_offsets, varCnt, solved, assignment, timeLimitReached, result>>

NextModelSize_Skip(size) == size + 2

\* modelSize++.
NextModelSize(size) == size + 1

ReachedMaxModelSize_Strict(size, max) == size > max

ReachedMaxModelSize_Never(size, max) == FALSE

\* if(modelSize >= _maxModelSize).
ReachedMaxModelSize(size, max) == size >= max

\* What runImpl does with the status out.status of solve().
onSolved(out) ==
  /\ solved' = Append(solved, [size |-> modelSize, status |-> out.status])
  /\ IF out.status = "SATISFIABLE"
     THEN /\ assignment' = out.model
          /\ Return("SATISFIABLE")
          /\ UNCHANGED <<clausesToBeAdded, modelSize, f_offsets, p_offsets, varCnt>>
     ELSE IF modelSize = UINT_MAX
     THEN /\ Return("UNKNOWN")
          /\ UNCHANGED <<assignment, clausesToBeAdded, modelSize, f_offsets,
                         p_offsets, varCnt>>
     ELSE IF ReachedMaxModelSize(modelSize, maxModelSize)
     THEN /\ Return("REFUTATION")
          /\ UNCHANGED <<assignment, clausesToBeAdded, modelSize, f_offsets,
                         p_offsets, varCnt>>
     ELSE /\ clausesToBeAdded' = <<>>
          /\ modelSize' = NextModelSize(modelSize)
          /\ UNCHANGED assignment
          /\ \E r \in reset(NextModelSize(modelSize)) :
               /\ f_offsets' = r.f_offsets
               /\ p_offsets' = r.p_offsets
               /\ varCnt' = r.varCnt
               /\ IF r.ok THEN pc' = "top" /\ UNCHANGED result
                  ELSE Return("UNKNOWN")
  /\ UNCHANGED <<prb, isComplete, maxModelSize, constantCount, idx, grounding,
                 families, timeLimitReached>>

\* The clauses go to the solver, and solve() decides them.
solve ==
  /\ UNCHANGED <<tsVars, aigVars>>
  /\ pc = "solve"
  /\ \E out \in SolveOutcomes : onSolved(out)

\* The wall clock passes the deadline.
deadlineExpires ==
  /\ UNCHANGED <<tsVars, aigVars>>
  /\ pc # "done"
  /\ ~timeLimitReached
  /\ timeLimitReached' = TRUE
  /\ UNCHANGED <<prb, pc, isComplete, maxModelSize, constantCount, modelSize,
                 f_offsets, p_offsets, varCnt, clausesToBeAdded, idx, grounding,
                 families, solved, assignment, result>>

Step ==
  \/ init
  \/ runImplStart
  \/ loopTop
  \/ addGroundClauses
  \/ addNewInstances
  \/ addNewFunctionalDefs
  \/ addNewSymmetryAxioms
  \/ addNewTotalityDefs
  \/ solve

Init == FMBInit

Next == Step \/ deadlineExpires

Spec == Init /\ [][Next]_vars

(***************************************************************************)
(* TransparentSolver: the pure-literal pre-solver in front of a SAT        *)
(* solver.  A clause is a sequence of literals over different variables;   *)
(* a stack is a sequence with its top at the end.                          *)
(***************************************************************************)

\* The variables of the solver are 1..NumVars.
NumVars == 2

\* The longest clause given to the solver.
MaxClauseLen == 2

\* The most clauses one addClauses call brings.
MaxBatch == 1

\* The most calls made on one solver.
MaxCalls == 3

Lit(v, pol) == [var |-> v, polarity |-> pol]

Literals == {Lit(v, pol) : v \in 1..NumVars, pol \in BOOLEAN}

SATClauses ==
  UNION {{cl \in [1..n -> Literals] : \A i, j \in 1..n : i # j => cl[i].var # cl[j].var}
           : n \in 1..MaxClauseLen}

Batches == UNION {[1..n -> SATClauses] : n \in 1..MaxBatch}

\* The null clause pointer.
NoUnit == <<>>

\* VarInfo(): the constructor leaves _isPure without a value.
VarInfo(pure) ==
  [unseen |-> TRUE, isPure |-> pure, isPurePositive |-> FALSE, unit |-> NoUnit,
   hasAssumption |-> FALSE, assumedPolarity |-> FALSE, watched |-> <<>>]

\* The operations below work on S = [vars, unprocessed, toBeAdded] and give
\* the state they leave, with the returned boolean where there is one.

RECURSIVE WatchFrom(_, _, _, _)
WatchFrom(S, cl, forbiddenVar, i) ==
  IF i > Len(cl) THEN [st |-> S, res |-> FALSE]
  ELSE LET lit == cl[i]
           var == lit.var
           vi == S.vars[var]
       IN  IF var = forbiddenVar THEN WatchFrom(S, cl, forbiddenVar, i + 1)
           ELSE IF vi.unit # NoUnit
           THEN IF lit.polarity = vi.unit[1].polarity THEN [st |-> S, res |-> TRUE]
                ELSE WatchFrom(S, cl, forbiddenVar, i + 1)
           ELSE IF vi.hasAssumption /\ vi.assumedPolarity # lit.polarity
           THEN WatchFrom(S, cl, forbiddenVar, i + 1)
           ELSE LET vi2 == IF vi.unseen
                           THEN [vi EXCEPT !.unseen = FALSE, !.isPure = TRUE,
                                           !.isPurePositive = lit.polarity]
                           ELSE vi
                IN  IF vi2.isPure /\ vi2.isPurePositive = lit.polarity
                    THEN [st |-> [S EXCEPT !.vars[var] =
                                     [vi2 EXCEPT !.watched = Append(@, cl)]],
                          res |-> TRUE]
                    ELSE WatchFrom([S EXCEPT !.vars[var] = vi2], cl, forbiddenVar, i + 1)

\* True when the clause got watched at a pure variable or is subsumed by a unit.
tryWatchOrSubsume(S, cl, forbiddenVar) == WatchFrom(S, cl, forbiddenVar, 1)

\* The loop of tryToSweepPure over the watched clauses, top first: todo are
\* the clauses yet to visit, kept the visited ones that stay.
RECURSIVE SweepFrom(_, _, _, _, _)
SweepFrom(S, var, eager, todo, kept) ==
  IF todo = <<>>
  THEN LET S1 == [S EXCEPT !.vars[var].watched = Reverse(kept)]
       IN  IF kept = <<>> /\ S.vars[var].unit = NoUnit
           THEN [st |-> [S1 EXCEPT !.vars[var].unseen = TRUE], res |-> TRUE]
           ELSE [st |-> S1, res |-> FALSE]
  ELSE LET r == tryWatchOrSubsume(S, Head(todo), var)
       IN  IF r.res THEN SweepFrom(r.st, var, eager, Tail(todo), kept)
           ELSE IF ~eager
           THEN [st |-> [r.st EXCEPT !.vars[var].watched = Reverse(kept \o todo)],
                 res |-> FALSE]
           ELSE SweepFrom(r.st, var, eager, Tail(todo), Append(kept, Head(todo)))

\* tryToSweepPure that gives the variable up without moving its clauses.
tryToSweepPure_GiveUp(S, var, eager) ==
  [st |-> [S EXCEPT !.vars[var].unseen = TRUE], res |-> TRUE]

tryToSweepPure(S, var, eager) ==
  IF ~eager /\ S.vars[var].unit # NoUnit THEN [st |-> S, res |-> FALSE]
  ELSE SweepFrom(S, var, eager, Reverse(S.vars[var].watched), <<>>)

\* makeVarNonPure that leaves the watched clauses where they are.
makeVarNonPure_KeepWatched(S, var) == [S EXCEPT !.vars[var].isPure = FALSE]

makeVarNonPure_DropWatched(S, var) ==
  [S EXCEPT !.vars[var] = [@ EXCEPT !.watched = <<>>, !.isPure = FALSE]]

makeVarNonPure(S, var) ==
  LET S1 == tryToSweepPure(S, var, TRUE).st
  IN  [S1 EXCEPT !.unprocessed = @ \o Reverse(S1.vars[var].watched),
                 !.vars[var] = [@ EXCEPT !.watched = <<>>, !.isPure = FALSE]]

\* processUnit that records the unit clause and leaves the variable as it is.
processUnit_KeepPure(S, cl) ==
  [S EXCEPT !.vars[cl[1].var].unit = cl, !.toBeAdded = Append(@, cl)]

processUnit(S, cl) ==
  LET lit == cl[1]
      var == lit.var
      vi == S.vars[var]
  IN  IF vi.unit # NoUnit
      THEN IF vi.unit[1].polarity = lit.polarity THEN S
           ELSE [S EXCEPT !.toBeAdded = Append(@, cl)]
      ELSE LET S1 == [S EXCEPT !.vars[var].unit = cl]
               S2 == IF ~vi.unseen /\ vi.isPure
                     THEN IF vi.isPurePositive = lit.polarity
                          THEN [S1 EXCEPT !.vars[var].watched = <<>>]
                          ELSE LET r == tryToSweepPure(S1, var, FALSE)
                               IN  IF r.res THEN r.st ELSE makeVarNonPure(r.st, var)
                     ELSE S1
               S3 == IF S2.vars[var].unseen
                     THEN [S2 EXCEPT !.vars[var] =
                             [@ EXCEPT !.unseen = FALSE, !.isPure = TRUE,
                                       !.isPurePositive = lit.polarity]]
                     ELSE S2
           IN  [S3 EXCEPT !.toBeAdded = Append(@, cl)]

\* while(toUnpure.isNonEmpty()) makeVarNonPure(toUnpure.pop()).
RECURSIVE MakeAllNonPure(_, _)
MakeAllNonPure(S, toUnpure) ==
  IF toUnpure = <<>> THEN S
  ELSE MakeAllNonPure(makeVarNonPure(S, toUnpure[Len(toUnpure)]),
                      SubSeq(toUnpure, 1, Len(toUnpure) - 1))

\* The loop of processUnprocessed over the literals of a clause that could
\* not be watched: a pure variable that can be swept frees the clause (the
\* result of the second tryWatchOrSubsume is not looked at), the others are
\* made non-pure after the clause went to _toBeAdded.
RECURSIVE SweepLits(_, _, _, _)
SweepLits(S, cl, i, toUnpure) ==
  IF i > Len(cl) THEN MakeAllNonPure([S EXCEPT !.toBeAdded = Append(@, cl)], toUnpure)
  ELSE LET var == cl[i].var
       IN  IF ~S.vars[var].isPure THEN SweepLits(S, cl, i + 1, toUnpure)
           ELSE LET r == tryToSweepPure(S, var, FALSE)
                IN  IF r.res THEN tryWatchOrSubsume(r.st, cl, 0).st
                    ELSE SweepLits(r.st, cl, i + 1, Append(toUnpure, var))

RECURSIVE processUnprocessed(_)
processUnprocessed(S) ==
  IF S.unprocessed = <<>> THEN S
  ELSE LET n == Len(S.unprocessed)
           cl == S.unprocessed[n]
           S0 == [S EXCEPT !.unprocessed = SubSeq(@, 1, n - 1)]
       IN  IF Len(cl) = 1 THEN processUnprocessed(processUnit(S0, cl))
           ELSE LET r == tryWatchOrSubsume(S0, cl, 0)
                IN  IF r.res THEN processUnprocessed(r.st)
                    ELSE processUnprocessed(SweepLits(r.st, cl, 1, <<>>))

\* The inner solver: satisfiability of what it holds, and the status it may
\* report (it need not have noticed that it holds a contradiction).
SatisfiedBy(A, clauses, lits) ==
  /\ \A cl \in clauses : Satisfies(A, Range(cl))
  /\ \A l \in lits : l.polarity = (l.var \in A)

Satisfiable(clauses, lits) == \E A \in SUBSET (1..NumVars) : SatisfiedBy(A, clauses, lits)

InnerStatuses ==
  IF Satisfiable(innerClauses, Range(innerAssumptions))
  THEN {"SATISFIABLE", "UNKNOWN"}
  ELSE {"UNSATISFIABLE", "UNKNOWN"}

TSInit ==
  /\ AIGUnused
  /\ varInfos \in [1..NumVars -> {VarInfo(TRUE), VarInfo(FALSE)}]
  /\ assumptions = <<>>
  /\ innerClauses = {}
  /\ innerAssumptions = <<>>
  /\ addedClauses = {}
  /\ givenAssumptions = {}
  /\ calls = 0
  /\ noAssumption = [vars |-> varInfos, inner |-> {}]
  /\ lastCall = NoCall
  /\ innerCalls = <<>>
  /\ onlyPropagateArg = FALSE
  /\ prb = 1
  /\ pc = "unused"
  /\ isComplete = FALSE
  /\ maxModelSize = UINT_MAX
  /\ constantCount = 0
  /\ modelSize = 0
  /\ f_offsets = <<>>
  /\ p_offsets = <<>>
  /\ varCnt = 0
  /\ clausesToBeAdded = <<>>
  /\ idx = 0
  /\ grounding = <<>>
  /\ families = <<>>
  /\ solved = <<>>
  /\ assignment = {}
  /\ timeLimitReached = FALSE
  /\ result = "NONE"

\* addClauses(cit, onlyPropagate); it may be called only without assumptions.
addClauses ==
  /\ calls < MaxCalls
  /\ assumptions = <<>>
  /\ \E cit \in Batches : \E onlyPropagate \in BOOLEAN :
       LET S == processUnprocessed([vars |-> varInfos, unprocessed |-> cit,
                                    toBeAdded |-> <<>>])
           N == processUnprocessed([vars |-> noAssumption.vars, unprocessed |-> cit,
                                    toBeAdded |-> <<>>])
       IN  /\ varInfos' = S.vars
           /\ innerClauses' = innerClauses \cup Range(S.toBeAdded)
           /\ addedClauses' = addedClauses \cup Range(cit)
           /\ noAssumption' = [vars |-> N.vars,
                               inner |-> noAssumption.inner \cup Range(N.toBeAdded)]
           /\ lastCall' = CallAfter(lastCall, "addClauses", NoCall.lit, cit)
           /\ innerCalls' = << InnerCall("addClauses", NoCall.lit,
                                         Range(S.toBeAdded), onlyPropagate) >>
           /\ onlyPropagateArg' = onlyPropagate
  /\ calls' = calls + 1
  /\ UNCHANGED <<assumptions, innerAssumptions, givenAssumptions>>
  /\ UNCHANGED <<fmbVars, aigVars>>

ReissueAssumptions_AllPropagate(restored, onlyPropagate) ==
  [i \in 1..Len(restored) |-> InnerCall("addAssumption", restored[i], {}, TRUE)]

\* The loop over _assumptions, bottom first, at the end of addAssumption:
\* addInnerAssumption(restoredLit, onlyPropagate || !last).
ReissueAssumptions(restored, onlyPropagate) ==
  [i \in 1..Len(restored) |->
     InnerCall("addAssumption", restored[i], {}, onlyPropagate \/ i # Len(restored))]

DuplicateAssumption_Never(vi, lit) == FALSE

DuplicateAssumption_Always(vi, lit) == TRUE

\* if(vi._assumedPolarity==lit.polarity()): duplicate assumption, do nothing.
DuplicateAssumption(vi, lit) == vi.assumedPolarity = lit.polarity

\* addAssumption(lit, onlyPropagate).
addAssumption ==
  /\ calls < MaxCalls
  /\ calls' = calls + 1
  /\ \E lit \in Literals : \E onlyPropagate \in BOOLEAN :
     \E innerStatus \in InnerStatuses :
       LET var == lit.var
           forward == << InnerCall("addAssumption", lit, {}, onlyPropagate) >>
           vi == varInfos[var]
           vis == [varInfos EXCEPT ![var] = [@ EXCEPT !.hasAssumption = TRUE,
                                                      !.assumedPolarity = lit.polarity]]
           S0 == [vars |-> vis, unprocessed |-> <<>>, toBeAdded |-> <<>>]
           sweep == tryToSweepPure(S0, var, FALSE)
           S == processUnprocessed(makeVarNonPure(sweep.st, var))
       IN  /\ givenAssumptions' = givenAssumptions \cup {lit}
           /\ lastCall' = CallAfter(lastCall, "addAssumption", lit, <<>>)
           /\ onlyPropagateArg' = onlyPropagate
           /\ IF vi.hasAssumption
              THEN /\ IF DuplicateAssumption(vi, lit)
                      THEN innerCalls' = <<>> /\ UNCHANGED innerAssumptions
                      ELSE /\ innerAssumptions' =
                                innerAssumptions \o <<Lit(var, ~lit.polarity), lit>>
                           /\ innerCalls' =
                                << InnerCall("addAssumption", Lit(var, ~lit.polarity),
                                             {}, TRUE),
                                   InnerCall("addAssumption", lit, {}, TRUE) >>
                   /\ UNCHANGED <<varInfos, assumptions, innerClauses>>
              ELSE /\ assumptions' = Append(assumptions, lit)
                   /\ IF innerStatus = "UNSATISFIABLE"
                      THEN /\ varInfos' = vis
                           /\ innerCalls' = <<>>
                           /\ UNCHANGED <<innerClauses, innerAssumptions>>
                      ELSE IF vi.unit # NoUnit \/ vi.unseen \/ ~vi.isPure
                      THEN /\ varInfos' = vis
                           /\ innerAssumptions' = Append(innerAssumptions, lit)
                           /\ innerCalls' = forward
                           /\ UNCHANGED innerClauses
                      ELSE IF vi.isPurePositive = lit.polarity
                      THEN /\ varInfos' = vis
                           /\ innerCalls' = <<>>
                           /\ UNCHANGED <<innerClauses, innerAssumptions>>
                      ELSE IF sweep.res
                      THEN /\ varInfos' = sweep.st.vars
                           /\ innerAssumptions' = Append(innerAssumptions, lit)
                           /\ innerCalls' = forward
                           /\ UNCHANGED innerClauses
                      ELSE LET reissued ==
                                 ReissueAssumptions(Append(assumptions, lit),
                                                    onlyPropagate)
                           IN  /\ varInfos' = S.vars
                               /\ innerClauses' = innerClauses \cup Range(S.toBeAdded)
                               /\ innerAssumptions' =
                                    [i \in 1..Len(reissued) |-> reissued[i].lit]
                               /\ innerCalls' =
                                    << InnerCall("retractAllAssumptions", NoCall.lit,
                                                 {}, FALSE),
                                       InnerCall("addClauses", NoCall.lit,
                                                 Range(S.toBeAdded), TRUE) >>
                                    \o reissued
  /\ UNCHANGED <<addedClauses, noAssumption>>
  /\ UNCHANGED <<fmbVars, aigVars>>

ClearAssumptions_Keep(vis, assumed) == vis

\* while(_assumptions.isNonEmpty()) { ... vi._hasAssumption = false; }
ClearAssumptions(vis, assumed) ==
  [v \in DOMAIN vis |->
     IF \E i \in 1..Len(assumed) : assumed[i].var = v
     THEN [vis[v] EXCEPT !.hasAssumption = FALSE]
     ELSE vis[v]]

retractAllAssumptions ==
  /\ calls < MaxCalls
  /\ calls' = calls + 1
  /\ innerAssumptions' = <<>>
  /\ assumptions' = <<>>
  /\ givenAssumptions' = {}
  /\ varInfos' = ClearAssumptions(varInfos, assumptions)
  /\ lastCall' = CallAfter(lastCall, "retractAllAssumptions", NoCall.lit, <<>>)
  /\ innerCalls' = << InnerCall("retractAllAssumptions", NoCall.lit, {}, FALSE) >>
  /\ onlyPropagateArg' = FALSE
  /\ UNCHANGED <<innerClauses, addedClauses, noAssumption>>
  /\ UNCHANGED <<fmbVars, aigVars>>

TSNext == addClauses \/ addAssumption \/ retractAllAssumptions

TSSpec == TSInit /\ [][TSNext]_vars

\* ---------------------------------------------------------------------------
\* AIGDefinitionIntroducer
\* ---------------------------------------------------------------------------

\* The most formula units, definitions aside, that have the same AIG.
MaxUnits == 2

\* _namingRefCntThreshold as the constructor sets it.
namingRefCntThreshold == 4

\* The positive AIG nodes of the input, each after the nodes it refers to:
\* $true, the atoms a and b, a & ~b, ![X]: (a & ~b),
\* (![X]: (a & ~b)) & ~(a & ~b), and that conjunction & a.
\* parents[pi] is r.parent(pi): the positive node and whether it is negated.
AIGNodes ==
  << [kind |-> "const", parents |-> <<>>],
     [kind |-> "atom", parents |-> <<>>],
     [kind |-> "atom", parents |-> <<>>],
     [kind |-> "conj", parents |-> << [node |-> 2, neg |-> FALSE], [node |-> 3, neg |-> TRUE] >>],
     [kind |-> "quant", parents |-> << [node |-> 4, neg |-> FALSE] >>],
     [kind |-> "conj", parents |-> << [node |-> 5, neg |-> FALSE], [node |-> 4, neg |-> TRUE] >>],
     [kind |-> "conj", parents |-> << [node |-> 6, neg |-> FALSE], [node |-> 2, neg |-> FALSE] >>] >>

\* _refAIGs after makeOrderedAIGGraphStack: the positive nodes the top-level
\* AIGs reach, every node above the nodes it refers to (doFirstRefAIGPass
\* looks the parents of a node up among the nodes pushed before it).
refAIGs ==
  LET RECURSIVE SubNodes(_)
      SubNodes(n) ==
        {n} \cup UNION { SubNodes(AIGNodes[n].parents[pi].node) :
                           pi \in 1..Len(AIGNodes[n].parents) }
      used == UNION { SubNodes(a.node) : a \in {t \in DOMAIN toplevelAIGs : toplevelAIGs[t] > 0} }
      RECURSIVE Ordered(_)
      Ordered(n) ==
        IF n > Len(AIGNodes) THEN <<>>
        ELSE (IF n \in used THEN <<n>> ELSE <<>>) \o Ordered(n + 1)
  IN  Ordered(1)

\* collectTopLevelAIGsAndDefs: every formula unit pushes its AIG; a unit of
\* definition shape goes through scanDefinition, which records its (positive)
\* right-hand side in _defs and pushes it as a top-level AIG.  _toplevelAIGs is
\* kept as the number of pushes of each AIG: its order is never looked at.
collectTopLevelAIGsAndDefs ==
  /\ aig_pc = "collect"
  /\ defs' = aigUnits.definitions
  /\ toplevelAIGs' =
       [a \in DOMAIN aigUnits.formulas |->
          aigUnits.formulas[a]
            + (IF ~a.neg /\ a.node \in aigUnits.definitions THEN 1 ELSE 0)]
  /\ aig_pc' = "first"
  /\ UNCHANGED <<aigUnits, refAIGInfos, newDefs, aigIdx>>
  /\ UNCHANGED <<eqInfos, relevantAigs, inlMap, simplMap, applied>>
  /\ UNCHANGED <<fmbVars, tsVars>>

\* doFirstRefAIGPass, over _refAIGs from index 0 up.  hasQuant[k + 1] stands
\* for _hasQuant[k], and so do inPol and inQuant.
doFirstRefAIGPass ==
  /\ aig_pc = "first"
  /\ LET RECURSIVE hasQuant(_, _)
         hasQuant(r, k) ==
           \/ k = 1 /\ AIGNodes[r].kind = "quant"
           \/ \E pi \in 1..Len(AIGNodes[r].parents) :
                LET par == AIGNodes[r].parents[pi]
                IN  hasQuant(par.node, IF par.neg THEN 1 - k ELSE k)
         directRefCnt(n) ==
           Cardinality({ rp \in Range(refAIGs) \X (1..2) :
                           /\ rp[2] <= Len(AIGNodes[rp[1]].parents)
                           /\ AIGNodes[rp[1]].parents[rp[2]].node = n })
     IN  refAIGInfos' =
           [r \in Range(refAIGs) |->
              [directRefCnt |-> directRefCnt(r),
               hasName |-> r \in defs,
               hasQuant |-> <<hasQuant(r, 0), hasQuant(r, 1)>>,
               inPol |-> <<FALSE, FALSE>>,
               inQuant |-> <<FALSE, FALSE>>,
               formRefCnt |-> 0]]
  /\ aig_pc' = "toplevel"
  /\ UNCHANGED <<aigUnits, toplevelAIGs, defs, newDefs, aigIdx>>
  /\ UNCHANGED <<eqInfos, relevantAigs, inlMap, simplMap, applied>>
  /\ UNCHANGED <<fmbVars, tsVars>>

\* shouldIntroduceName without its tests.
shouldIntroduceName_Always(a, infos, named) == TRUE

shouldIntroduceName(a, infos, named) ==
  IF AIGNodes[a].kind \in {"const", "atom"} THEN FALSE
  ELSE IF namingRefCntThreshold = 0 \/ infos[a].formRefCnt < namingRefCntThreshold THEN FALSE
  ELSE IF a \in named THEN FALSE
  ELSE TRUE

\* introduceName: the node counts once from now on, gets a fresh predicate as
\* its name in _defs, and the unit defining that predicate is pushed to _newDefs
\* (kept as the node the unit defines).
introduceName(a, infos, named, units) ==
  [infos |-> [infos EXCEPT ![a].formRefCnt = 1, ![a].hasName = TRUE],
   defs |-> named \cup {a},
   newDefs |-> Append(units, a)]

\* doSecondRefAIGPass: first the loop over _toplevelAIGs, then one node of
\* _refAIGs a step, from the last index down.
doSecondRefAIGPass ==
  /\ aig_pc \in {"toplevel", "second"}
  /\ IF aig_pc = "toplevel"
     THEN /\ refAIGInfos' =
               [r \in DOMAIN refAIGInfos |->
                  LET tl(x) == IF [node |-> r, neg |-> x] \in DOMAIN toplevelAIGs
                           THEN toplevelAIGs[[node |-> r, neg |-> x]] ELSE 0
                  IN  [refAIGInfos[r] EXCEPT
                         !.formRefCnt = @ + tl(FALSE) + tl(TRUE),
                         !.inPol = <<tl(TRUE) > 0, tl(FALSE) > 0>>]]
          /\ aigIdx' = Len(refAIGs)
          /\ aig_pc' = IF refAIGs = <<>> THEN "done" ELSE "second"
          /\ UNCHANGED <<defs, newDefs>>
     ELSE LET r == refAIGs[aigIdx]
              counted == IF refAIGInfos[r].hasName
                       THEN [refAIGInfos EXCEPT ![r].formRefCnt = 1]
                         ELSE refAIGInfos
              before == [infos |-> counted, defs |-> defs, newDefs |-> newDefs]
              after == IF shouldIntroduceName(r, counted, defs)
                       THEN introduceName(r, counted, defs, newDefs)
                       ELSE before
              ni == after.infos[r]
              RECURSIVE Parents(_, _)
              Parents(infos, pi) ==
                IF pi > Len(AIGNodes[r].parents) THEN infos
                ELSE LET par == AIGNodes[r].parents[pi]
                         pni == infos[par.node]
                         \* index of _inQuant[k ^ neg] and _inPol[k ^ neg]
                         x(k) == IF par.neg THEN 2 - k ELSE k + 1
                         inQuant0 == IF AIGNodes[r].kind = "quant"
                                     THEN [pni.inQuant EXCEPT ![IF par.neg THEN 1 ELSE 2] = TRUE]
                                     ELSE pni.inQuant
                         inQuant1 == [inQuant0 EXCEPT ![x(0)] = @ \/ ni.inQuant[1]]
                         inQuant2 == [inQuant1 EXCEPT ![x(1)] = @ \/ ni.inQuant[2]]
                         inPol1 == [pni.inPol EXCEPT ![x(0)] = @ \/ ni.inPol[1]]
                         inPol2 == [inPol1 EXCEPT ![x(1)] = @ \/ ni.inPol[2]]
                     IN  Parents([infos EXCEPT ![par.node] =
                                    [pni EXCEPT !.inQuant = inQuant2,
                                                !.inPol = inPol2,
                                                !.formRefCnt = @ + ni.formRefCnt]],
                                 pi + 1)
          IN  /\ refAIGInfos' = Parents(after.infos, 1)
              /\ defs' = after.defs
              /\ newDefs' = after.newDefs
              /\ aigIdx' = aigIdx - 1
              /\ aig_pc' = IF aigIdx = 1 THEN "done" ELSE "second"
  /\ UNCHANGED <<aigUnits, toplevelAIGs>>
  /\ UNCHANGED <<eqInfos, relevantAigs, inlMap, simplMap, applied>>
  /\ UNCHANGED <<fmbVars, tsVars>>

\* A constructed AIGDefinitionIntroducer and the units its scan will be given:
\* for each AIG the number of formula units that are not definitions and have
\* that AIG, and the nodes n for which there is one unit of definition shape
\* name_n <=> n.
AIGInit ==
  /\ aig_pc = "collect"
  /\ LET refs == { [node |-> 1, neg |-> FALSE], [node |-> 1, neg |-> TRUE],
                   [node |-> 4, neg |-> FALSE], [node |-> 4, neg |-> TRUE],
                   [node |-> 6, neg |-> FALSE], [node |-> 7, neg |-> FALSE] }
     IN  aigUnits \in [formulas : [refs -> 0..MaxUnits], definitions : SUBSET {4, 6}]
  /\ toplevelAIGs = <<>>
  /\ defs = {}
  /\ refAIGInfos = <<>>
  /\ newDefs = <<>>
  /\ aigIdx = 0
  /\ eqInfos = <<>>
  /\ relevantAigs = <<>>
  /\ inlMap = <<>>
  /\ simplMap = <<>>
  /\ applied = [a |-> <<>>, res |-> <<>>]
  /\ TSUnused
  /\ prb = 1
  /\ pc = "unused"
  /\ isComplete = FALSE
  /\ maxModelSize = UINT_MAX
  /\ constantCount = 0
  /\ modelSize = 0
  /\ f_offsets = <<>>
  /\ p_offsets = <<>>
  /\ varCnt = 0
  /\ clausesToBeAdded = <<>>
  /\ idx = 0
  /\ grounding = <<>>
  /\ families = <<>>
  /\ solved = <<>>
  /\ assignment = {}
  /\ timeLimitReached = FALSE
  /\ result = "NONE"

\* AIGDefinitionIntroducer::scan, up to its call of saturateMap.
AIGSpec ==
  AIGInit /\ [][collectTopLevelAIGsAndDefs \/ doFirstRefAIGPass \/ doSecondRefAIGPass]_vars

\* ---------------------------------------------------------------------------
\* AIGInliner
\* ---------------------------------------------------------------------------

\* An AIG is <<kind, polarity, content, variable>>: an atom <<"atom", b, f, t>>
\* of the predicate with number f and the argument t ("x" is a variable, "c"
\* and "d" are constants), the constant <<"true", b, 0, "">>, a conjunction
\* <<"and", b, {l, r}, "">> or a quantifier node <<"forall", b, {body}, "x">>.
\* A literal is an atom AIG.

\* The most units one scan is given.
MaxInlinerUnits == 3

\* The atoms below an AIG, as the traversal of scan meets them.
RECURSIVE AtomsOf(_)
AtomsOf(a) ==
  CASE a[1] = "atom" -> { [a EXCEPT ![2] = TRUE] }
    [] a[1] \in {"and", "forall"} -> UNION { AtomsOf(b) : b \in a[3] }
    [] OTHER -> {}

\* The AIG a with the image map[b] in place of every atom b that map has; the
\* conjunctions are built again over the images, and a conjunction with a
\* constant, with twice the same AIG or with an AIG and its negation is the
\* simpler AIG that the AIG constructor gives.  With the empty map this is the
\* compression of a.  Quantifier nodes stay as they are: no right-hand side
\* and no image has one.
RECURSIVE AIGMap(_, _)
AIGMap(a, map) ==
  LET neg(b) == [b EXCEPT ![2] = ~@]
      true == <<"true", TRUE, 0, "">>
      conj(b, c) == IF b = neg(true) \/ c = neg(true) \/ b = neg(c) THEN neg(true)
                    ELSE IF b = true \/ b = c THEN c
                    ELSE IF c = true THEN b
                    ELSE <<"and", TRUE, {b, c}, "">>
      pos == [a EXCEPT ![2] = TRUE]
      res == CASE a[1] = "atom" -> IF pos \in DOMAIN map THEN map[pos] ELSE pos
               [] a[1] = "and" -> LET b == CHOOSE b \in a[3] : TRUE
                                      c == CHOOSE c \in a[3] : c # b
                                  IN  conj(AIGMap(b, map), AIGMap(c, map))
               [] OTHER -> pos
  IN  IF a[2] THEN res ELSE neg(res)

\* AIGTransformer::lev0Deref: one look-up of the positive AIG in the map.
lev0Deref(a, map) ==
  LET pos == [a EXCEPT ![2] = TRUE]
  IN  IF pos \in DOMAIN map
      THEN (IF a[2] THEN map[pos] ELSE [map[pos] EXCEPT ![2] = ~@])
      ELSE a

\* AIGTransformer::saturateMap: the map composed with itself until it no
\* longer changes.  The count stops a map that never settles; the definitions
\* of InlinerUnits depend on each other without a cycle and settle before.
saturateMap(map) ==
  LET RECURSIVE Compose(_, _)
      Compose(m, n) ==
        LET next == [a \in DOMAIN m |-> AIGMap(m[a], m)]
        IN  IF n = 0 \/ next = m THEN m ELSE Compose(next, n - 1)
  IN  Compose(map, Cardinality(DOMAIN map))

\* The units a scan can be given, over the predicates o, p, q, r, s with the
\* numbers 1 to 5 in the signature:
\*   1  ![X]: (p(X) <=> (q(X) & r(X)))
\*   2  ![X]: (q(X) <=> s(X))
\*   3  ![X]: (q(X) <=> o(X))
\*   4  ![X]: (~q(X) <=> (r(X) & o(X)))
\*   5  p(c) <=> (r(c) & s(c))
\*   6  the clause p(c)
\*   7  the clause ~p(d) | q(c)
\*   8  r(c)
\* left and right are the AIGs of the two sides of the formula under the
\* quantifier (a side is a literal exactly when its AIG is an atom), aig is
\* the AIG of the whole unit.
InlinerUnits ==
  LET At(f, t) == <<"atom", TRUE, f, t>>
      Not(a) == [a EXCEPT ![2] = ~@]
      And(a, b) == <<"and", TRUE, {a, b}, "">>
      Iff(a, b) == And(Not(And(a, Not(b))), Not(And(Not(a), b)))
      true == <<"true", TRUE, 0, "">>
      Equiv(qvars, a, b) ==
        [isClause |-> FALSE, qvars |-> qvars, connective |-> "iff", left |-> a, right |-> b,
         aig |-> IF qvars = {} THEN Iff(a, b) ELSE <<"forall", TRUE, {Iff(a, b)}, "x">>]
      Clause(a) ==
        [isClause |-> TRUE, qvars |-> {}, connective |-> "or", left |-> true, right |-> true,
         aig |-> a]
  IN  << Equiv({"x"}, At(2, "x"), And(At(3, "x"), At(4, "x"))),
         Equiv({"x"}, At(3, "x"), At(5, "x")),
         Equiv({"x"}, At(3, "x"), At(1, "x")),
         Equiv({"x"}, Not(At(3, "x")), And(At(4, "x"), At(1, "x"))),
         Equiv({}, At(2, "c"), And(At(4, "c"), At(5, "c"))),
         Clause(At(2, "c")),
         Clause(Not(And(At(2, "d"), Not(At(3, "c"))))),
         [isClause |-> FALSE, qvars |-> {}, connective |-> "literal",
          left |-> At(4, "c"), right |-> true, aig |-> At(4, "c")] >>

\* EquivInfo::tryGetEquiv, with litIsLess.  No predicate is protected.  Of two
\* literal sides both or neither is a definition head here (each is a
\* predicate applied to the quantified variable), and no unit has the same
\* predicate on both sides.
tryGetEquiv(fu) ==
  LET none == [ok |-> FALSE, lhs |-> fu.left, rhs |-> fu.right]
      isDefinitionHead(l) == l[4] = "x"
      litIsLess(l1, l2) == l1[3] # l2[3] /\ l1[3] < l2[3]
      bothLiterals == fu.left[1] = "atom" /\ fu.right[1] = "atom"
      sameHead == isDefinitionHead(fu.left) = isDefinitionHead(fu.right)
      swap == IF fu.left[1] # "atom" THEN TRUE
              ELSE IF fu.right[1] # "atom" THEN FALSE
              ELSE IF sameHead THEN litIsLess(fu.left, fu.right)
              ELSE isDefinitionHead(fu.right)
      c1 == IF swap THEN fu.right ELSE fu.left
      c2 == IF swap THEN fu.left ELSE fu.right
      lhsVars == IF c1[4] = "x" THEN {"x"} ELSE {}
  IN  IF fu.connective = "literal"
      THEN [ok |-> TRUE, lhs |-> fu.left, rhs |-> <<"true", TRUE, 0, "">>]
      ELSE IF fu.connective # "iff" THEN none
      ELSE IF /\ bothLiterals /\ sameHead
              /\ fu.left[3] = fu.right[3] /\ fu.left[4] = fu.right[4] THEN none
      ELSE IF c1[1] # "atom" THEN none
      ELSE IF fu.qvars # lhsVars THEN none
      ELSE [ok |-> TRUE, lhs |-> c1, rhs |-> c2]


\* addInfo that stores every candidate.
addInfo_StoreAll(inf, infos) ==
  [ok |-> TRUE, infos |-> ([inf.lhs EXCEPT ![2] = TRUE] :> inf.rhs) @@ infos]

\* addInfo: infos is _defs, the active right-hand side of each stored positive
\* left-hand side.  Two literals of different units share no variable, so they
\* unify when the predicate is the same and the arguments are equal or one of
\* them is a variable.
addInfo(inf, infos) ==
  LET posLhs == [inf.lhs EXCEPT ![2] = TRUE]
      unifies(l) == l[3] = posLhs[3] /\ (l[4] = posLhs[4] \/ l[4] = "x" \/ posLhs[4] = "x")
      rhsAig == IF inf.lhs[2] THEN inf.rhs ELSE [inf.rhs EXCEPT ![2] = ~@]
  IN  IF \E l \in DOMAIN infos : unifies(l)
      THEN [ok |-> FALSE, infos |-> infos]
      ELSE [ok |-> TRUE, infos |-> (posLhs :> AIGMap(rhsAig, <<>>)) @@ infos]

\* tryExpandAtom without its pick among the generalisations.
tryExpandAtom_NoDefinition(atom, infos) == [ok |-> FALSE, res |-> atom]

\* tryExpandAtom without the instantiation of the right-hand side.
tryExpandAtom_Uninstantiated(atom, infos) ==
  LET generalizations == {l \in DOMAIN infos : l[3] = atom[3] /\ l[4] \in {atom[4], "x"}}
  IN  IF generalizations = {} THEN [ok |-> FALSE, res |-> atom]
      ELSE [ok |-> TRUE, res |-> infos[CHOOSE l \in generalizations : TRUE]]

\* tryExpandAtom: the stored left-hand side that generalises the atom, and its
\* right-hand side under the substitution that matches it onto the atom.
tryExpandAtom(atom, infos) ==
  LET generalizations == {l \in DOMAIN infos : l[3] = atom[3] /\ l[4] \in {atom[4], "x"}}
  IN  IF generalizations = {} THEN [ok |-> FALSE, res |-> atom]
      ELSE LET defLhs == CHOOSE l \in generalizations : TRUE
               defRhs == infos[defLhs]
               applicator == [b \in AtomsOf(defRhs) |->
                                [b EXCEPT ![4] = IF @ = "x" THEN atom[4] ELSE @]]
           IN  IF atom = defLhs THEN [ok |-> TRUE, res |-> defRhs]
               ELSE [ok |-> TRUE, res |-> AIGMap(defRhs, applicator)]

\* scan, with collectDefinitions: the definitions are stored and the relevant
\* AIGs collected, every atom the traversal meets gets its image, the map is
\* saturated, and the simplification map is filled for the nodes of the
\* inlined relevant AIGs.
scan ==
  /\ aig_pc = "constructed"
  /\ LET RECURSIVE collectDefinitions(_, _, _)
         collectDefinitions(i, infos, relevant) ==
           IF i > Len(aigUnits) THEN [infos |-> infos, relevantAigs |-> relevant]
           ELSE LET u == InlinerUnits[aigUnits[i]]
                    inf == tryGetEquiv(u)
                    added == addInfo(inf, infos)
                IN  IF u.isClause
                    THEN collectDefinitions(i + 1, infos, Append(relevant, u.aig))
                    ELSE IF inf.ok /\ added.ok
                    THEN collectDefinitions(i + 1, added.infos, Append(relevant, inf.rhs))
                    ELSE collectDefinitions(i + 1, infos, Append(relevant, u.aig))
         collected == collectDefinitions(1, <<>>, <<>>)
         RECURSIVE Traverse(_, _, _)
         Traverse(atoms, seen, atomMap) ==
           IF atoms \subseteq seen THEN atomMap
           ELSE LET a == CHOOSE a \in atoms \ seen : TRUE
                    tgt == tryExpandAtom(a, collected.infos)
                IN  IF tgt.ok
                    THEN Traverse(atoms \cup AtomsOf(tgt.res), seen \cup {a},
                                  (a :> tgt.res) @@ atomMap)
                    ELSE Traverse(atoms, seen \cup {a}, atomMap)
         atomMap ==
           Traverse(UNION { AtomsOf(collected.relevantAigs[i]) :
                              i \in 1..Len(collected.relevantAigs) }, {}, <<>>)
         saturated == saturateMap(atomMap)
         RECURSIVE Nodes(_)
         Nodes(a) ==
           { [a EXCEPT ![2] = TRUE] }
             \cup (IF a[1] \in {"and", "forall"} THEN UNION { Nodes(b) : b \in a[3] } ELSE {})
         traversal ==
           UNION { Nodes(lev0Deref(collected.relevantAigs[i], saturated)) :
                     i \in 1..Len(collected.relevantAigs) }
     IN  /\ eqInfos' = collected.infos
         /\ relevantAigs' = collected.relevantAigs
         /\ inlMap' = saturated
         /\ simplMap' = [n \in traversal |-> AIGMap(n, <<>>)]
  /\ aig_pc' = "scanned"
  /\ UNCHANGED <<aigUnits, applied>>
  /\ UNCHANGED <<toplevelAIGs, defs, refAIGInfos, newDefs, aigIdx>>
  /\ UNCHANGED <<fmbVars, tsVars>>

\* apply(AIGRef), given an atom or the negation of one.
apply ==
  /\ aig_pc = "scanned"
  /\ \E b \in UNION { AtomsOf(InlinerUnits[i].aig) : i \in 1..Len(InlinerUnits) } :
       \E polarity \in BOOLEAN :
         LET a == [b EXCEPT ![2] = polarity]
             inl == lev0Deref(a, inlMap)
             res == lev0Deref(inl, simplMap)
         IN  applied' = [a |-> a, res |-> res]
  /\ UNCHANGED <<aig_pc, aigUnits, eqInfos, relevantAigs, inlMap, simplMap>>
  /\ UNCHANGED <<toplevelAIGs, defs, refAIGInfos, newDefs, aigIdx>>
  /\ UNCHANGED <<fmbVars, tsVars>>

\* A constructed AIGInliner and the units its scan will be given: up to
\* MaxInlinerUnits different units of InlinerUnits in any order.
InlinerInit ==
  /\ aig_pc = "constructed"
  /\ aigUnits \in { u \in UNION { [1..n -> 1..Len(InlinerUnits)] : n \in 0..MaxInlinerUnits } :
                     \A i, j \in 1..Len(u) : u[i] = u[j] => i = j }
  /\ eqInfos = <<>>
  /\ relevantAigs = <<>>
  /\ inlMap = <<>>
  /\ simplMap = <<>>
  /\ applied = [a |-> <<>>, res |-> <<>>]
  /\ toplevelAIGs = <<>>
  /\ defs = {}
  /\ refAIGInfos = <<>>
  /\ newDefs = <<>>
  /\ aigIdx = 0
  /\ TSUnused
  /\ prb = 1
  /\ pc = "unused"
  /\ isComplete = FALSE
  /\ maxModelSize = UINT_MAX
  /\ constantCount = 0
  /\ modelSize = 0
  /\ f_offsets = <<>>
  /\ p_offsets = <<>>
  /\ varCnt = 0
  /\ clausesToBeAdded = <<>>
  /\ idx = 0
  /\ grounding = <<>>
  /\ families = <<>>
  /\ solved = <<>>
  /\ assignment = {}
  /\ timeLimitReached = FALSE
  /\ result = "NONE"

InlinerSpec == InlinerInit /\ [][scan \/ apply]_vars

\* The largest model size at which the assignments of a function's result
\* variables are enumerated.
MaxCheckedSize == 3

\* The clauses go to the solver, and solve() gives up: SATSolver::UNKNOWN.
\* An undecided size below MaxCheckedSize is followed by the next one.
solveUnknown ==
  /\ UNCHANGED <<tsVars, aigVars>>
  /\ pc = "solve"
  /\ modelSize < MaxCheckedSize \/ ReachedMaxModelSize(modelSize, maxModelSize)
  /\ onSolved([status |-> "UNKNOWN", model |-> {}])

\* The run with a solver that can give up.
UnknownSpec == Init /\ [][Next \/ solveUnknown]_vars

\* The run with a scheduler that keeps running the program while it can step.
FairSpec == Spec /\ WF_vars(Step)

\* The run is inside the loop of runImpl: reset(modelSize) has returned true.
InLoop == pc \in {"top", "ground", "instances", "funcdefs", "symmetry", "totality", "solve"}

(***************************************************************************)
(* Properties of the transparent solver.                                   *)
(***************************************************************************)

\* C1: after any sequence of addClauses / addAssumption /
\* retractAllAssumptions the clauses and assumptions the inner solver holds
\* are satisfiable exactly when the clauses ever passed to addClauses with
\* the assumptions now in force are satisfiable.
C1_Sound ==
  Satisfiable(innerClauses, Range(innerAssumptions))
    <=> Satisfiable(addedClauses, givenAssumptions)

(***************************************************************************)
(* Properties of the finite model builder.                                 *)
(***************************************************************************)

\* C2: candidate sizes are tried in the order 1, 2, 3, ... with exactly one
\* solve() per size; a run that returns SATISFIABLE returns it at the first
\* size the solver reports satisfiable: the reported size is that size, every
\* smaller size was solved and was not satisfiable, no larger size is tried.
C2_SizesInOrderFirstSat ==
  /\ \A i \in 1..Len(solved) : solved[i].size = i
  /\ \A i \in 1..(Len(solved) - 1) : solved[i].status # "SATISFIABLE"
  /\ InLoop => modelSize = Len(solved) + 1
  /\ result = "SATISFIABLE" <=>
       (solved # <<>> /\ solved[Len(solved)].status = "SATISFIABLE")
  /\ result = "SATISFIABLE" => pc = "done" /\ modelSize = Len(solved)

C2_Witness ==
  /\ result = "SATISFIABLE"
  /\ modelSize = 3
  /\ solved = << [size |-> 1, status |-> "UNSATISFIABLE"],
                 [size |-> 2, status |-> "UNSATISFIABLE"],
                 [size |-> 3, status |-> "SATISFIABLE"] >>

\* C3 (amended): when solve() reports UNSAT at size s < UINT_MAX: if
\* s >= max_model_size the run ends with REFUTATION at s; otherwise the
\* pending clauses are discarded and the size becomes s + 1, where the run
\* goes on unless reset(s + 1) overflows (UNKNOWN).  UNSAT at s = UINT_MAX
\* ends the run with UNKNOWN, whatever max_model_size is.
C3_UnsatStep ==
  [][(pc = "solve" /\ Len(solved') = Len(solved) + 1
        /\ solved'[Len(solved')].status = "UNSATISFIABLE")
     => IF modelSize = UINT_MAX
        THEN pc' = "done" /\ result' = "UNKNOWN"
        ELSE IF modelSize >= maxModelSize
        THEN pc' = "done" /\ result' = "REFUTATION" /\ modelSize' = modelSize
        ELSE /\ clausesToBeAdded' = <<>>
             /\ modelSize' = modelSize + 1
             /\ pc' = "top" \/ (pc' = "done" /\ result' = "UNKNOWN")]_vars

C3_Witness ==
  /\ result = "REFUTATION"
  /\ modelSize = 2
  /\ maxModelSize = 2
  /\ solved = << [size |-> 1, status |-> "UNSATISFIABLE"],
                 [size |-> 2, status |-> "UNSATISFIABLE"] >>
  /\ clausesToBeAdded # <<>>

\* C3 as stated: UNSAT at s >= max_model_size ends the run with REFUTATION,
\* UNSAT at s < max_model_size discards the pending clauses and continues
\* with size s + 1.
C3_AsStated ==
  [][(pc = "solve" /\ Len(solved') = Len(solved) + 1
        /\ solved'[Len(solved')].status = "UNSATISFIABLE")
     => IF modelSize >= maxModelSize
        THEN pc' = "done" /\ result' = "REFUTATION"
        ELSE clausesToBeAdded' = <<>> /\ modelSize' = modelSize + 1]_vars

\* The domain of place i of function f at this size (place 0 is the result).
FunDomain(f, i, size) == 1..Min(Prb.functionBounds[f][i], size)

\* The argument tuples of f over the domains of its argument sorts.
ArgTuples(f, size) ==
  {x \in [1..Prb.funArity[f] -> 1..size] :
     \A i \in 1..Prb.funArity[f] : x[i] \in FunDomain(f, i, size)}

\* The pending clauses of the given families, as sets of literals.
PendingOf(fams) == {c.lits : c \in {d \in Range(clausesToBeAdded) : d.family \in fams}}

\* C4: the totality and functionality clauses generated at size s force every
\* satisfying assignment to define a total function: for every function f and
\* every argument tuple exactly one result variable f(args) = j is true, and
\* that j is in [1..min(s, bound(f))].
C4_TotalFunction ==
  (pc = "solve" /\ modelSize <= MaxCheckedSize) =>
    \A f \in Functions : \A x \in ArgTuples(f, modelSize) :
      LET V == {getSATLiteral(f, x \o <<j>>, TRUE, TRUE, modelSize).var : j \in 1..modelSize}
          FT == {c \in PendingOf({"funcdefs", "totality"}) : {l.var : l \in c} \subseteq V}
      IN  \A T \in SUBSET V :
            (\A c \in FT : Satisfies(T, c)) =>
               \E j \in FunDomain(f, 0, modelSize) :
                  T = {getSATLiteral(f, x \o <<j>>, TRUE, TRUE, modelSize).var}

\* C5: addNewFunctionalDefs(size) emits, for every function f, every argument
\* tuple x and every pair of result values y # z of the domain, the clause
\* ~f(x)=y | ~f(x)=z.
C5_FunctionalDefsComplete ==
  pc \in {"symmetry", "totality", "solve"} =>
    \A f \in Functions : \A x \in ArgTuples(f, modelSize) :
      \A y, z \in FunDomain(f, 0, modelSize) :
        y # z =>
          { getSATLiteral(f, x \o <<y>>, FALSE, TRUE, modelSize),
            getSATLiteral(f, x \o <<z>>, FALSE, TRUE, modelSize) }
             \in PendingOf({"funcdefs"})

\* offset + sum over i of (d_i - 1) * s^(i-1), in the integers.
RECURSIVE PlaceSum(_, _, _)
PlaceSum(use, i, size) ==
  IF i > Len(use) THEN 0
  ELSE (use[i] - 1) * Pow(size, i - 1) + PlaceSum(use, i + 1, size)

\* Every symbol with every grounding over [1..size].
SymbolGroundings(size) ==
  {[isFunction |-> TRUE, id |-> f, use |-> u] :
     f \in Functions, u \in UNION {[1..(Prb.funArity[g] + 1) -> 1..size] : g \in Functions}}
  \cup
  {[isFunction |-> FALSE, id |-> q, use |-> u] :
     q \in Predicates, u \in UNION {[1..Prb.predArity[g] -> 1..size] : g \in Predicates}}

\* C6: at a fixed size s getSATLiteral maps a symbol and a grounding d_1..d_k
\* over [1..s] to offset(symbol) + sum (d_i - 1) * s^(i-1), and two different
\* (symbol, grounding) pairs never get the same variable.
C6_NumberingInjective ==
  InLoop =>
    LET S == {x \in SymbolGroundings(modelSize) :
                 Len(x.use) = IF x.isFunction THEN Prb.funArity[x.id] + 1
                              ELSE Prb.predArity[x.id]}
        V(x) == getSATLiteral(x.id, x.use, TRUE, x.isFunction, modelSize).var
    IN  /\ \A x \in S : V(x) = OffsetOf(x.id, x.isFunction) + PlaceSum(x.use, 1, modelSize)
        /\ Cardinality({V(x) : x \in S}) = Cardinality(S)

\* C7: when the loop starts max_model_size is at most the variable count of
\* every non-ground clause whose literals are all positive equalities of two
\* different variables, and for an EPR problem at most the number of
\* constants: the EPR adjustment never raises a tighter bound.
C7_MaxModelSizeBounds ==
  (pc = "top" /\ solved = <<>>) =>
    /\ \A i \in 1..Len(Prb.clauses) :
         LET c == Prb.clauses[i]
         IN  (IsNonGround(c) /\ \A k \in 1..Len(c.lits) : IsPosEq(c.lits[k]))
                => maxModelSize <= c.varCnt
    /\ Prb.isEPR => maxModelSize <= constantCount

\* The sum of the blocks of all symbols at this size, in the integers.
RECURSIVE BlockSum(_, _)
BlockSum(size, k) ==
  IF k > Len(ResetSymbols) THEN 0
  ELSE Pow(size, ResetSymbols[k].exp) + BlockSum(size, k + 1)

\* C9: when the variables required at a size (the sum of the blocks plus 1)
\* do not fit the unsigned counter, reset returns false and no solve() runs at
\* that size; when reset returns true nothing wrapped around and the variable
\* count given to ensureVarCount is greater than every allocated offset.
C9_OverflowHandled ==
  /\ \A i \in 1..Len(solved) : BlockSum(solved[i].size, 1) + 1 <= UINT_MAX
  /\ InLoop =>
       /\ BlockSum(modelSize, 1) + 1 <= UINT_MAX
       /\ \A f \in Functions : f_offsets[f] < varCnt
       /\ \A q \in Predicates : p_offsets[q] < varCnt

\* C10 (amended): the deadline is polled only at the head of the loop.  When
\* it has been reached at that poll the run returns TIME_LIMIT with no further
\* clause family, solve() or model; nowhere else does the run return
\* TIME_LIMIT: an iteration that has begun emits its families and solves.
C10_PolledAtLoopHead ==
  [][/\ (pc = "top" /\ timeLimitReached) =>
          /\ pc' = "done" /\ result' = "TIME_LIMIT"
          /\ families' = families /\ clausesToBeAdded' = clausesToBeAdded
          /\ solved' = solved /\ assignment' = assignment
     /\ pc # "top" => result' # "TIME_LIMIT"]_vars

C10_Witness ==
  /\ result = "TIME_LIMIT"
  /\ Len(solved) = 1
  /\ modelSize = 2
  /\ families = <<"ground", "instances", "funcdefs", "symmetry", "totality">>

\* C10 as stated: the deadline is polled at the head of the loop and between
\* the encoding passes; once reached, the run returns TIME_LIMIT at the next
\* poll.
C10_AsStated ==
  [][(timeLimitReached
        /\ (pc = "top" \/ (pc \in {"instances", "funcdefs", "symmetry", "totality"}
                             /\ idx = 0)))
     => (pc' = "done" /\ result' = "TIME_LIMIT")]_vars

\* C8: when max_model_size is finite and the deadline does not expire the run
\* returns, after at most max(1, max_model_size) calls of solve(), with
\* SATISFIABLE, REFUTATION or UNKNOWN; the enumerations of each size end.
C8_Terminates ==
  /\ [](Len(solved) <= Max(1, maxModelSize))
  /\ []((pc = "done" /\ ~timeLimitReached) => result \in {"SATISFIABLE", "REFUTATION", "UNKNOWN"})
  /\ (InLoop /\ maxModelSize < UINT_MAX) ~> (pc = "done" \/ timeLimitReached)

C8_Witness ==
  /\ pc = "done"
  /\ ~timeLimitReached
  /\ result = "REFUTATION"
  /\ maxModelSize = 3
  /\ Len(solved) = 3

\* Flattening some input clause gives the empty clause.
HasEmptyClause == \E i \in 1..Len(Prb.clauses) : Prb.clauses[i].lits = <<>>

\* C11 (amended): when flattening gives the empty clause in a problem the
\* completeness predicate admits, init() ends the run with REFUTATION before
\* any size is tried and before a solver exists; in a problem it does not
\* admit init() returns at once and the run ends with UNKNOWN, no size tried.
C11_EmptyClauseRefutes ==
  (HasEmptyClause /\ pc # "constructed") =>
    /\ solved = <<>> /\ modelSize = 0 /\ varCnt = 0 /\ clausesToBeAdded = <<>>
    /\ isComplete => (pc = "done" /\ result = "REFUTATION")
    /\ ~isComplete => (pc = "initialised" \/ (pc = "done" /\ result = "UNKNOWN"))

C11_Witness ==
  /\ HasEmptyClause /\ isComplete
  /\ pc = "done" /\ result = "REFUTATION"
  /\ solved = <<>> /\ varCnt = 0

\* C11 as stated: an empty clause gives an immediate REFUTATION from init(),
\* whatever the completeness predicate says.
C11_AsStated ==
  (HasEmptyClause /\ pc # "constructed") =>
    (pc = "done" /\ result = "REFUTATION" /\ solved = <<>> /\ varCnt = 0)

\* onModelFound: the domain elements c of 1..size whose variable f = c is true
\* in the assignment; the loop prints the first of them and breaks.
TrueValues(f, A, size) ==
  {c \in 1..size : getSATLiteral(f, <<c>>, TRUE, TRUE, size).var \in A}

ConstantValue(f, A, size) ==
  IF TrueValues(f, A, size) = {} THEN 0
  ELSE CHOOSE c \in TrueValues(f, A, size) : \A d \in TrueValues(f, A, size) : c <= d

\* C12: when the clauses of size s go to the solver (the symmetry axioms for
\* 1..s are among them), every assignment that satisfies them interprets the
\* k-th constant of the constants stack, for k <= min(s, number of constants),
\* by a domain element in [1..k].
C12_ConstantsCanonical ==
  pc = "solve" =>
    \A A \in Models :
      \A k \in 1..Min(modelSize, Len(Constants)) :
        ConstantValue(Constants[k], A, modelSize) \in 1..k

C12_Witness ==
  /\ pc = "solve"
  /\ modelSize >= 2
  /\ Len(Constants) >= 2
  /\ "symmetry" \in Range(families)
  /\ \E A \in Models : ConstantValue(Constants[2], A, modelSize) = 2

(***************************************************************************)
(* Assumptions of the transparent solver.                                  *)
(***************************************************************************)
\* The lifecycle position of a variable.
Status(vi) == IF vi.unseen THEN "unseen" ELSE IF vi.isPure THEN "pure" ELSE "impure"

\* retractAllAssumptions has just emptied a non-empty set of assumptions.
Retracted == givenAssumptions # {} /\ givenAssumptions' = {}

\* C13 (amended): retractAllAssumptions after addAssumption calls leaves no
\* variable with an assumption, empties the assumption list and the inner
\* solver's assumptions, and keeps the permanent clauses; the status of every
\* variable, its unit, its watched list and the clauses forwarded to the inner
\* solver stay as the assumptions left them.
C13_RetractClearsAssumptions ==
  [][Retracted =>
       /\ assumptions' = <<>>
       /\ innerAssumptions' = <<>>
       /\ \A v \in 1..NumVars :
            /\ ~varInfos'[v].hasAssumption
            /\ varInfos'[v] = [varInfos[v] EXCEPT !.hasAssumption = FALSE]
       /\ innerClauses' = innerClauses
       /\ addedClauses' = addedClauses]_vars

C13_Witness ==
  /\ givenAssumptions = {}
  /\ assumptions = <<>>
  /\ \A v \in 1..NumVars : ~varInfos[v].hasAssumption
  /\ calls = 3
  /\ \E v \in 1..NumVars :
       /\ Status(varInfos[v]) # Status(noAssumption.vars[v])
       /\ Range(varInfos[v].watched) # Range(noAssumption.vars[v].watched)

\* C13 as stated: whenever no assumption is in force (none was made, or all
\* were retracted), no variable carries an assumption, the assumption list is
\* empty, and the status of every variable, the watched lists and the clauses
\* forwarded to the inner solver are those reached by the same addClauses
\* calls without any assumption.
C13_AsStated ==
  givenAssumptions = {} =>
    /\ assumptions = <<>>
    /\ \A v \in 1..NumVars :
         /\ ~varInfos[v].hasAssumption
         /\ Status(varInfos[v]) = Status(noAssumption.vars[v])
         /\ Range(varInfos[v].watched) = Range(noAssumption.vars[v].watched)
    /\ innerClauses = noAssumption.inner

\* The step is a call addAssumption(L) made right after a call addAssumption(L).
RepeatedAssumption ==
  /\ lastCall.op = "addAssumption"
  /\ lastCall'.op = "addAssumption"
  /\ lastCall'.times = lastCall.times + 1

\* C14 (amended): a call addAssumption(L) right after addAssumption(L) changes
\* nothing in the assumption list, in any variable's info or watched list, and
\* in the inner solver's clauses; it sends nothing to the inner solver when the
\* variable's recorded assumption is L, and sends the pair ~L, L again when the
\* variable carries the opposite assumption from an earlier call.
C14_RepeatedAssumption ==
  [][RepeatedAssumption =>
       /\ UNCHANGED <<assumptions, varInfos, innerClauses>>
       /\ LET lit == lastCall.lit
              vi == varInfos[lit.var]
          IN  /\ vi.hasAssumption
              /\ IF vi.assumedPolarity = lit.polarity
                 THEN innerAssumptions' = innerAssumptions
                 ELSE innerAssumptions' =
                        innerAssumptions \o <<Lit(lit.var, ~lit.polarity), lit>>]_vars

C14_Witness ==
  /\ lastCall.op = "addAssumption"
  /\ lastCall.times = 2
  /\ assumptions = <<lastCall.lit>>
  /\ innerAssumptions = <<lastCall.lit>>
  /\ varInfos[lastCall.lit.var].hasAssumption

\* C14 as stated: a call addAssumption(L) right after addAssumption(L) changes
\* nothing in the assumption list, in any variable's info or watched list, and
\* sends nothing to the inner solver.
C14_AsStated ==
  [][RepeatedAssumption =>
       UNCHANGED <<assumptions, varInfos, innerClauses, innerAssumptions>>]_vars

(***************************************************************************)
(* The order of the clause families.                                       *)
(***************************************************************************)
\* The families in the order runImpl calls their passes.
FamilyOrder == <<"ground", "instances", "funcdefs", "symmetry", "totality">>

FamilyRank(family) == CHOOSE i \in 1..Len(FamilyOrder) : FamilyOrder[i] = family

\* The pending clauses of one family, in the order they were added.
PendingSeqOf(family) ==
  SelectSeq(clausesToBeAdded, LAMBDA c : c.family = family)

\* The pending list holds the families one after the other in the order of
\* the passes, the symmetry axioms for s = 1, 2, ..., modelSize in that
\* order (looked at up to size MaxCheckedSize), and solve() is reached only
\* with all five passes done.
FamiliesInOrder ==
  /\ pc = "solve" => families = FamilyOrder
  /\ (InLoop /\ pc # "top") =>
       /\ Len(families) <= Len(FamilyOrder)
       /\ families = SubSeq(FamilyOrder, 1, Len(families))
  /\ (InLoop /\ pc # "top" /\ modelSize <= MaxCheckedSize) =>
       /\ \A i \in 1..(Len(clausesToBeAdded) - 1) :
            FamilyRank(clausesToBeAdded[i].family)
              <= FamilyRank(clausesToBeAdded[i + 1].family)
       /\ \A c \in Range(clausesToBeAdded) :
            c.family \in Range(families) \/ c.family = pc
       /\ "symmetry" \in Range(families) =>
            PendingSeqOf("symmetry")
              = addSATClauses(<<>>, "symmetry", SymmetryUpTo(1, modelSize))

\* The offset reset(size) gives symbol k where no conversion is undefined:
\* 1 plus the blocks of the symbols before it.
ExactOffset(size, k) == 1 + BlockSum(size, 1) - BlockSum(size, k)

\* The numbering the clauses are written in is fixed by the input and the
\* size.
OffsetsDetermined ==
  \A k \in 1..Len(ResetSymbols) :
    OffsetOf(ResetSymbols[k].id, ResetSymbols[k].isFunction) = ExactOffset(modelSize, k)

GroundingSize(sym) ==
  IF sym.isFunction THEN Prb.funArity[sym.id] + 1 ELSE Prb.predArity[sym.id]

\* The variables getSATLiteral can give the symbols from k on at this size:
\* size^(places) each, in the integers.
RECURSIVE UsedSum(_, _)
UsedSum(size, k) ==
  IF k > Len(ResetSymbols) THEN 0
  ELSE Pow(size, GroundingSize(ResetSymbols[k])) + UsedSum(size, k + 1)

\* C16: the offsets are cumulative with blocks of size^(a+1) for a function of
\* arity a and size^a for a predicate of arity a: starting from 1, each
\* symbol's offset is the previous offset plus the previous block, so the
\* blocks tile the variable range without gaps.
C16_BlocksTile ==
  InLoop =>
    \A k \in 1..Len(ResetSymbols) :
      OffsetOf(ResetSymbols[k].id, ResetSymbols[k].isFunction)
        = 1 + UsedSum(modelSize, 1) - UsedSum(modelSize, k)

(***************************************************************************)
(* Scenarios.                                                              *)
(***************************************************************************)
\* The run has returned, and not by the deadline.
Finished == pc = "done" /\ result # "TIME_LIMIT"

\* P(d) is true in the assignment solve() left, for predicate 1 at this size.
PHolds(d) == getSATLiteral(1, <<d>>, TRUE, FALSE, modelSize).var \in assignment

\* C17: on {P(a), ~P(b)} the run finds size 1 unsatisfiable, solves size 2 and
\* returns SATISFIABLE with model size 2, where a = fmb1, b = fmb2, P(fmb1)
\* holds and P(fmb2) does not, or the symmetric assignment.
C17_PaNotPb ==
  (Prb = PrbPaNotPb /\ Finished) =>
    /\ result = "SATISFIABLE"
    /\ modelSize = 2
    /\ solved = << [size |-> 1, status |-> "UNSATISFIABLE"],
                   [size |-> 2, status |-> "SATISFIABLE"] >>
    /\ LET a == ConstantValue(0, assignment, 2)
           b == ConstantValue(1, assignment, 2)
       IN  /\ TrueValues(0, assignment, 2) = {a}
           /\ TrueValues(1, assignment, 2) = {b}
           /\ \/ a = 1 /\ b = 2 /\ PHolds(1) /\ ~PHolds(2)
              \/ a = 2 /\ b = 1 /\ PHolds(2) /\ ~PHolds(1)

C17_Witness ==
  /\ Prb = PrbPaNotPb
  /\ Finished
  /\ result = "SATISFIABLE"
  /\ Len(solved) = 2
  /\ ConstantValue(0, assignment, 2) = 1
  /\ ConstantValue(1, assignment, 2) = 2
  /\ PHolds(1)
  /\ ~PHolds(2)

\* C18 (amended): on {a = b, a != b} size 1 is found unsatisfiable, but
\* max_model_size is the number of constants, 2, so size 2 is tried as well;
\* the run returns REFUTATION at size 2, after exactly two solve() calls.
C18_RefutedAtSizeTwo ==
  (Prb = PrbAeqBAneqB /\ Finished) =>
    /\ result = "REFUTATION"
    /\ maxModelSize = 2
    /\ modelSize = 2
    /\ solved = << [size |-> 1, status |-> "UNSATISFIABLE"],
                   [size |-> 2, status |-> "UNSATISFIABLE"] >>

C18_Witness ==
  /\ Prb = PrbAeqBAneqB
  /\ Finished
  /\ result = "REFUTATION"
  /\ modelSize = 2
  /\ Len(solved) = 2

\* C18 as stated: on {a = b, a != b} the run returns REFUTATION at size 1:
\* after exactly one solve() call, without ever trying size 2.
C18_RefutedAtSizeOne ==
  (Prb = PrbAeqBAneqB /\ Finished) =>
    /\ result = "REFUTATION"
    /\ modelSize = 1
    /\ solved = << [size |-> 1, status |-> "UNSATISFIABLE"] >>

\* C19: on the single clause {x = y} init sets max_model_size to 1 and the run
\* returns SATISFIABLE at size 1; the instance enumeration at size 1 stays
\* inside [1..1] and no empty SAT clause is emitted.
C19_XeqY ==
  Prb = PrbXeqY =>
    /\ pc = "initialised" => maxModelSize = 1
    /\ Finished => (result = "SATISFIABLE" /\ modelSize = 1)
    /\ (pc = "instances" /\ modelSize = 1) =>
         \A i \in DOMAIN grounding : grounding[i] <= 1
    /\ \A c \in Range(clausesToBeAdded) : c.lits # {}

\* The clauses {A}, {~A, B}, {~B} over the variables A = 1 and B = 2.
ClauseA == <<Lit(1, TRUE)>>

ClauseNotAB == <<Lit(1, FALSE), Lit(2, TRUE)>>

ClauseNotB == <<Lit(2, FALSE)>>

\* After addClauses({A}) on a fresh solver, and after addClauses({~A, B}) next.
AfterA == calls = 1 /\ lastCall.clauses = <<ClauseA>>

AfterNotAB ==
  /\ calls = 2
  /\ addedClauses = {ClauseA, ClauseNotAB}
  /\ varInfos[1].unit = ClauseA /\ varInfos[1].isPure /\ varInfos[1].isPurePositive
  /\ varInfos[1].watched = <<>>
  /\ ~varInfos[2].unseen /\ varInfos[2].isPure /\ varInfos[2].isPurePositive
  /\ varInfos[2].unit = NoUnit
  /\ varInfos[2].watched = <<ClauseNotAB>>
  /\ innerClauses = {ClauseA}

C24_GroundingsInRange ==
  (pc = "instances" /\ idx \in 1..Len(Clauses)
     /\ grounding # InitGrounding(Clauses[idx].varCnt)) =>
    \A i \in DOMAIN grounding : grounding[i] \in 1..modelSize

\* C25 (as the code has it): when addNewInstances visits a grounding that
\* satisfies a two-variable equality literal of the clause the whole instance
\* is skipped; under any other grounding the instance is emitted without its
\* two-variable equalities, which never become SAT literals.
C25_TwoVarEquality ==
  [][(pc = "instances" /\ idx \in 1..Len(Clauses) /\ idx' = idx
        /\ grounding' # grounding) =>
       LET c == Clauses[idx]
           g == grounding'
           Satisfied(l) == l.polarity <=> (g[l.vars[1]] = g[l.vars[2]])
           rest == { getSATLiteral(l.functor,
                                   [j \in 1..Len(l.vars) |-> g[l.vars[j]]],
                                   l.polarity, l.kind = "feq", modelSize) :
                       l \in {m \in Range(c.lits) : ~IsEq2(m)} }
       IN  IF \E l \in Range(c.lits) : IsEq2(l) /\ Satisfied(l)
           THEN clausesToBeAdded' = clausesToBeAdded
           ELSE clausesToBeAdded' =
                  IF IsTautology(rest) THEN clausesToBeAdded
                  ELSE Append(clausesToBeAdded,
                              [family |-> "instances", lits |-> rest])]_vars

\* At size 2 the clause x != y | P(x) | Q(y) has been enumerated: the
\* instances of (1, 1) and (2, 2) are pending without the equality, those of
\* (1, 2) and (2, 1) were skipped.
C25_Witness ==
  /\ Prb = PrbNeqOrPQ /\ pc = "instances" /\ modelSize = 2
  /\ idx \in 1..Len(Clauses) /\ Len(Clauses[idx].lits) = 3
  /\ grounding = [i \in 0..1 |-> 2]
  /\ Cardinality({k \in 1..Len(clausesToBeAdded) :
                    /\ clausesToBeAdded[k].family = "instances"
                    /\ Cardinality(clausesToBeAdded[k].lits) = 2}) = 2

\* C25 (as stated): a grounding that contradicts a two-variable equality
\* literal skips the whole instance, and a grounding that satisfies it skips
\* only that literal and the rest of the instance is emitted.
C25_AsStated ==
  [][(pc = "instances" /\ idx \in 1..Len(Clauses) /\ idx' = idx
        /\ grounding' # grounding) =>
       LET c == Clauses[idx]
           g == grounding'
           Satisfied(l) == l.polarity <=> (g[l.vars[1]] = g[l.vars[2]])
           rest == { getSATLiteral(l.functor,
                                   [j \in 1..Len(l.vars) |-> g[l.vars[j]]],
                                   l.polarity, l.kind = "feq", modelSize) :
                       l \in {m \in Range(c.lits) : ~IsEq2(m)} }
       IN  IF \E l \in Range(c.lits) : IsEq2(l) /\ ~Satisfied(l)
           THEN clausesToBeAdded' = clausesToBeAdded
           ELSE clausesToBeAdded' =
                  IF IsTautology(rest) THEN clausesToBeAdded
                  ELSE Append(clausesToBeAdded,
                              [family |-> "instances", lits |-> rest])]_vars

\* C26 (as the code has it): when the symmetry pass of size m is done, for
\* each s with 2 <= s <= min(m, number of constants) and each d in [2..s] the
\* clause not(c_s = d) or c_1 = d-1 or ... or c_(s-1) = d-1 is pending, every
\* pending symmetry clause with a negative literal is one of these, and the
\* domain elements d and d-1 are in [1..s].
C26_Canonicity ==
  (pc = "totality" /\ modelSize <= MaxCheckedSize) =>
    LET Canon(s, d) ==
          {getSATLiteral(Constants[s], <<d>>, FALSE, TRUE, s)}
            \cup {getSATLiteral(Constants[i], <<d - 1>>, TRUE, TRUE, s) :
                    i \in 1..(s - 1)}
        Sym == {c \in Range(clausesToBeAdded) : c.family = "symmetry"}
        sizes == 2..Min(modelSize, Len(Constants))
    IN  /\ \A s \in sizes : \A d \in 2..s :
             /\ d \in 1..s /\ d - 1 \in 1..s
             /\ IsTautology(Canon(s, d)) \/ \E c \in Sym : c.lits = Canon(s, d)
        /\ \A c \in Sym :
             (\E l \in c.lits : ~l.polarity) =>
                \E s \in sizes : \E d \in 2..s : c.lits = Canon(s, d)

\* The symmetry pass of size 3 over three constants has left the clause
\* not(c_3 = 3) or c_1 = 2 or c_2 = 2 pending.
C26_Witness ==
  /\ pc = "totality" /\ modelSize = 3 /\ Len(Constants) >= 3
  /\ \E c \in Range(clausesToBeAdded) :
       /\ c.family = "symmetry"
       /\ c.lits = {getSATLiteral(Constants[3], <<3>>, FALSE, TRUE, 3),
                    getSATLiteral(Constants[1], <<2>>, TRUE, TRUE, 3),
                    getSATLiteral(Constants[2], <<2>>, TRUE, TRUE, 3)}
       /\ Cardinality(c.lits) = 3

\* C26 (as stated): for each s with 2 <= s <= number of constants and each d
\* in [1..s-1] the clause not(c_s = d) or c_1 = d-1 or ... or c_(s-1) = d-1 is
\* pending after the symmetry pass, and d and d-1 are in [1..s].
C26_AsStated ==
  (pc = "totality" /\ modelSize <= MaxCheckedSize) =>
    LET Canon(s, d) ==
          {getSATLiteral(Constants[s], <<d>>, FALSE, TRUE, s)}
            \cup {getSATLiteral(Constants[i], <<d - 1>>, TRUE, TRUE, s) :
                    i \in 1..(s - 1)}
        Sym == {c \in Range(clausesToBeAdded) : c.family = "symmetry"}
        sizes == 2..Min(modelSize, Len(Constants))
    IN  \A s \in sizes : \A d \in 1..(s - 1) :
          /\ d \in 1..s /\ d - 1 \in 1..s
          /\ IsTautology(Canon(s, d)) \/ \E c \in Sym : c.lits = Canon(s, d)

\* C27: when the symmetry pass of size m is done, for each size s <= m larger
\* than the number n of constants, with n > 0 and floor(s/n) an index of the
\* function list, the clause stating that F = functions[floor(s/n)] applied
\* to the (s mod n)-th domain element in every argument position equals some
\* element of [1..s] is pending, and that argument element is in [1..s].
C27_FunctionSymmetry ==
  (pc = "totality" /\ modelSize <= MaxCheckedSize) =>
    LET n == Len(Constants)
    IN  \A s \in (n + 1)..modelSize :
          (n > 0 /\ s \div n < Len(NonConstants)) =>
            LET F == NonConstants[(s \div n) + 1]
                e == s % n
                cl == {getSATLiteral(F, [k \in 1..Prb.funArity[F] |-> e] \o <<i>>,
                                     TRUE, TRUE, s) : i \in 1..s}
            IN  /\ e \in 1..s
                /\ \E c \in Range(clausesToBeAdded) :
                      c.family = "symmetry" /\ c.lits = cl

\* C28: the queue drain loses no clause: every non-unit clause given to
\* addClauses is, after any call, parked on the watched list of one of its
\* variables, subsumed by the unit of one of its literals, or forwarded to the
\* inner solver.
C28_NoneLost ==
  \A cl \in addedClauses :
    Len(cl) > 1 =>
      \/ cl \in innerClauses
      \/ \E i \in 1..Len(cl) :
           \/ cl \in Range(varInfos[cl[i].var].watched)
           \/ varInfos[cl[i].var].unit = <<cl[i]>>

\* C29 (amended): addAssumption(lit) on a variable without a recorded
\* assumption records lit; unless the inner solver reports UNSATISFIABLE (then
\* nothing is forwarded) lit is forwarded when the variable has a unit, is
\* unseen or is impure, nothing is forwarded when it is pure with the polarity
\* of lit, lit is forwarded when the sweep of the pure variable succeeds, and
\* when the sweep fails the inner solver sees retractAllAssumptions, then
\* addClauses with only_propagate = true, then every recorded assumption in
\* the order of recording with only_propagate = true and lit last with the
\* caller's only_propagate.
C29_AssumptionDispatch ==
  [][(lastCall'.op = "addAssumption" /\ calls' = calls + 1
        /\ ~varInfos[lastCall'.lit.var].hasAssumption) =>
       LET lit == lastCall'.lit
           vi == varInfos[lit.var]
           n == Len(assumptions)
           Forwarded ==
             innerCalls' = << InnerCall("addAssumption", lit, {}, onlyPropagateArg') >>
           Reissued ==
             /\ Len(innerCalls') = n + 3
             /\ innerCalls'[1].op = "retractAllAssumptions"
             /\ innerCalls'[2].op = "addClauses" /\ innerCalls'[2].onlyPropagate
             /\ innerCalls'[2].clauses \subseteq addedClauses
             /\ innerClauses' = innerClauses \cup innerCalls'[2].clauses
             /\ \A i \in 1..n :
                  innerCalls'[i + 2] = InnerCall("addAssumption", assumptions[i], {}, TRUE)
             /\ innerCalls'[n + 3] =
                  InnerCall("addAssumption", lit, {}, onlyPropagateArg')
           Dispatch ==
             IF vi.unit # NoUnit \/ vi.unseen \/ ~vi.isPure THEN Forwarded
             ELSE IF vi.isPurePositive = lit.polarity THEN innerCalls' = <<>>
             ELSE IF varInfos'[lit.var].unseen THEN Forwarded
             ELSE Reissued
       IN  /\ assumptions' = Append(assumptions, lit)
           /\ IF Satisfiable(innerClauses, Range(innerAssumptions)) THEN Dispatch
              ELSE Dispatch \/ (innerCalls' = <<>> /\ innerClauses' = innerClauses)]_vars

\* addAssumption(x1) on the pure negative x1 after addAssumption(x2): the
\* sweep failed and the inner solver saw the retraction, the re-queued clause,
\* x2 with only_propagate = true and x1 with the caller's only_propagate = false.
C29_Witness ==
  /\ lastCall.op = "addAssumption" /\ ~onlyPropagateArg
  /\ Len(innerCalls) = 4
  /\ innerCalls[1].op = "retractAllAssumptions"
  /\ innerCalls[2].op = "addClauses" /\ innerCalls[2].clauses # {}
  /\ innerCalls[3].op = "addAssumption" /\ innerCalls[3].onlyPropagate
  /\ innerCalls[4] = InnerCall("addAssumption", lastCall.lit, {}, FALSE)
  /\ ~varInfos[lastCall.lit.var].isPure

\* C29 (as stated): addAssumption(lit) on a variable without a recorded
\* assumption forwards lit when the variable has a unit, is unseen or is
\* impure, forwards nothing when it is pure with the polarity of lit, and when
\* it is pure with the other polarity and the sweep fails the inner solver
\* sees retractAllAssumptions, addClauses with only_propagate = true, and the
\* recorded assumptions in order with lit last, only_propagate = true for all
\* but the last.
C29_AsStated ==
  [][(lastCall'.op = "addAssumption" /\ calls' = calls + 1
        /\ ~varInfos[lastCall'.lit.var].hasAssumption) =>
       LET lit == lastCall'.lit
           vi == varInfos[lit.var]
           n == Len(assumptions)
           Forwarded ==
             innerCalls' = << InnerCall("addAssumption", lit, {}, onlyPropagateArg') >>
           Reissued ==
             /\ Len(innerCalls') = n + 3
             /\ innerCalls'[1].op = "retractAllAssumptions"
             /\ innerCalls'[2].op = "addClauses" /\ innerCalls'[2].onlyPropagate
             /\ innerCalls'[2].clauses \subseteq addedClauses
             /\ innerClauses' = innerClauses \cup innerCalls'[2].clauses
             /\ \A i \in 1..n :
                  innerCalls'[i + 2] = InnerCall("addAssumption", assumptions[i], {}, TRUE)
             /\ innerCalls'[n + 3] =
                  InnerCall("addAssumption", lit, {}, onlyPropagateArg')
           Dispatch ==
             IF vi.unit # NoUnit \/ vi.unseen \/ ~vi.isPure THEN Forwarded
             ELSE IF vi.isPurePositive = lit.polarity THEN innerCalls' = <<>>
             ELSE IF varInfos'[lit.var].unseen THEN Forwarded
             ELSE Reissued
       IN  /\ assumptions' = Append(assumptions, lit)
           /\ Dispatch]_vars

\* C30: addAssumption(L) while the opposite literal is the recorded
\* assumption of the variable leaves the assumption list, every variable info
\* and the inner clauses unchanged and leaves the inner solver with the
\* contradicting assumptions not-L and L, so unsatisfiable, also when the
\* earlier assumption had not been forwarded; retractAllAssumptions then
\* leaves the inner solver without assumptions and no variable with one.
C30_ContradictingAssumption ==
  [][/\ (/\ lastCall'.op = "addAssumption" /\ calls' = calls + 1
         /\ varInfos[lastCall'.lit.var].hasAssumption
         /\ varInfos[lastCall'.lit.var].assumedPolarity # lastCall'.lit.polarity) =>
          /\ assumptions' = assumptions
          /\ varInfos' = varInfos
          /\ innerClauses' = innerClauses
          /\ {lastCall'.lit, Lit(lastCall'.lit.var, ~lastCall'.lit.polarity)}
               \subseteq Range(innerAssumptions')
          /\ ~Satisfiable(innerClauses', Range(innerAssumptions'))
     /\ (/\ lastCall'.op = "retractAllAssumptions" /\ calls' = calls + 1
         /\ \E v \in 1..NumVars :
              {Lit(v, TRUE), Lit(v, FALSE)} \subseteq Range(innerAssumptions)) =>
          /\ innerAssumptions' = <<>>
          /\ assumptions' = <<>>
          /\ \A v \in 1..NumVars : ~varInfos'[v].hasAssumption
          /\ innerClauses' = innerClauses
          /\ Satisfiable(innerClauses', Range(innerAssumptions'))
               <=> Satisfiable(innerClauses, {})]_vars

\* addAssumption(L) was called on a pure variable whose recorded assumption
\* not-L had not been forwarded: the inner solver holds exactly not-L and L.
C30_Witness ==
  /\ lastCall.op = "addAssumption"
  /\ LET vi == varInfos[lastCall.lit.var]
     IN  /\ vi.hasAssumption /\ vi.assumedPolarity # lastCall.lit.polarity
         /\ ~vi.unseen /\ vi.isPure /\ vi.isPurePositive = vi.assumedPolarity
         /\ vi.unit = NoUnit
  /\ innerAssumptions = <<Lit(lastCall.lit.var, ~lastCall.lit.polarity), lastCall.lit>>
  /\ assumptions = <<Lit(lastCall.lit.var, ~lastCall.lit.polarity)>>
  /\ Satisfiable(innerClauses, {})
  /\ ~Satisfiable(innerClauses, Range(innerAssumptions))

\* C23: in the step of the second pass that visits a node, a node that is
\* neither a propositional constant nor an atom and whose formula-reference
\* count on arrival is at least the threshold leaves the step with exactly one
\* name, either the one of a definition given to scan or one fresh name with
\* one new defining unit; a node that leaves the step named has added exactly
\* 1 to the count of each node it refers to; and a node whose count on
\* arrival is below the threshold has no new defining unit.
C23_OneName ==
  [][ (aig_pc = "second" /\ aigIdx' = aigIdx - 1) =>
        LET r == refAIGs[aigIdx]
            cnt == refAIGInfos[r].formRefCnt
            fresh == Cardinality({i \in 1..Len(newDefs') : newDefs'[i] = r})
            given == IF r \in aigUnits.definitions THEN 1 ELSE 0
        IN  /\ (AIGNodes[r].kind \notin {"const", "atom"} /\ cnt >= namingRefCntThreshold)
                 => r \in defs' /\ refAIGInfos'[r].hasName /\ fresh + given = 1
            /\ refAIGInfos'[r].hasName =>
                 \A pi \in 1..Len(AIGNodes[r].parents) :
                   LET par == AIGNodes[r].parents[pi].node
                   IN  refAIGInfos'[par].formRefCnt = refAIGInfos[par].formRefCnt + 1
            /\ cnt < namingRefCntThreshold => fresh = 0 ]_vars

\* C23 witness: the scan is over; it was given a definition of a node, made a
\* fresh name for another node, and left a conjunction that stayed below
\* the threshold without a name.
C23_Witness ==
  /\ aig_pc = "done"
  /\ aigUnits.definitions # {}
  /\ newDefs # <<>>
  /\ \E r \in DOMAIN refAIGInfos :
       /\ AIGNodes[r].kind = "conj"
       /\ ~refAIGInfos[r].hasName
       /\ refAIGInfos[r].formRefCnt > 0

C31_Lifecycle ==
  LET State(vi) == IF vi.unseen THEN "unseen" ELSE IF vi.isPure THEN "pure" ELSE "impure"
      Rehomed(T, v, cl) ==
        \/ \E w \in DOMAIN T.vars : w # v /\ cl \in Range(T.vars[w].watched)
        \/ \E i \in 1..Len(cl) :
             /\ T.vars[cl[i].var].unit # NoUnit
             /\ T.vars[cl[i].var].unit[1].polarity = cl[i].polarity
      \* the step from S to T, with swept the variable of a sweep or 0
      StepOk(S, T, swept) ==
        \A v \in DOMAIN S.vars :
          LET a == S.vars[v]
              b == T.vars[v]
          IN  \/ State(a) = State(b) /\ (State(a) = "pure" => a.isPurePositive = b.isPurePositive)
              \/ State(a) = "unseen" /\ State(b) = "pure"
              \/ State(a) = "pure" /\ State(b) = "impure"
              \/ /\ State(a) = "pure" /\ State(b) = "unseen"
                 /\ v = swept
                 /\ b.unit = NoUnit /\ b.watched = <<>>
                 /\ \A cl \in Range(a.watched) : Rehomed(T, v, cl)
      RECURSIVE UnpureOk(_, _)
      UnpureOk(S, toUnpure) ==
        \/ toUnpure = <<>>
        \/ LET var == toUnpure[Len(toUnpure)]
               T == makeVarNonPure(S, var)
           IN  StepOk(S, T, var) /\ UnpureOk(T, SubSeq(toUnpure, 1, Len(toUnpure) - 1))
      RECURSIVE LitsOk(_, _, _, _)
      LitsOk(S, cl, i, toUnpure) ==
        IF i > Len(cl) THEN UnpureOk([S EXCEPT !.toBeAdded = Append(@, cl)], toUnpure)
        ELSE LET var == cl[i].var
                 r == tryToSweepPure(S, var, FALSE)
             IN  IF ~S.vars[var].isPure THEN LitsOk(S, cl, i + 1, toUnpure)
                 ELSE /\ StepOk(S, r.st, var)
                      /\ IF r.res THEN StepOk(r.st, tryWatchOrSubsume(r.st, cl, 0).st, 0)
                         ELSE LitsOk(r.st, cl, i + 1, Append(toUnpure, var))
      RECURSIVE DrainOk(_)
      DrainOk(S) ==
        \/ S.unprocessed = <<>>
        \/ LET n == Len(S.unprocessed)
               cl == S.unprocessed[n]
               S0 == [S EXCEPT !.unprocessed = SubSeq(@, 1, n - 1)]
               r == tryWatchOrSubsume(S0, cl, 0)
           IN  IF Len(cl) = 1
               THEN /\ StepOk(S0, processUnit(S0, cl), 0)
                    /\ DrainOk(processUnit(S0, cl))
               ELSE /\ StepOk(S0, r.st, 0)
                    /\ IF r.res THEN DrainOk(r.st)
                       ELSE /\ LitsOk(r.st, cl, 1, <<>>)
                            /\ DrainOk(SweepLits(r.st, cl, 1, <<>>))
  IN  /\ assumptions = <<>> =>
           \A cit \in Batches :
             DrainOk([vars |-> varInfos, unprocessed |-> cit, toBeAdded |-> <<>>])
      /\ \A lit \in Literals :
           LET var == lit.var
               vi == varInfos[var]
               S0 == [vars |-> [varInfos EXCEPT ![var] =
                                  [@ EXCEPT !.hasAssumption = TRUE,
                                            !.assumedPolarity = lit.polarity]],
                      unprocessed |-> <<>>, toBeAdded |-> <<>>]
               sweep == tryToSweepPure(S0, var, FALSE)
               T == makeVarNonPure(sweep.st, var)
           IN  (/\ ~vi.hasAssumption /\ vi.unit = NoUnit /\ ~vi.unseen /\ vi.isPure
                /\ vi.isPurePositive # lit.polarity)
                 => /\ StepOk(S0, sweep.st, var)
                    /\ ~sweep.res => StepOk(sweep.st, T, var) /\ DrainOk(T)

\* C31 witness: the only clause given to the solver was watched on the variable
\* of its first literal; a sweep has moved it to the variable of its second
\* literal, and the first variable is unseen again.
C31_Witness ==
  \E cl \in addedClauses :
    /\ addedClauses = {cl}
    /\ Len(cl) = 2
    /\ varInfos[cl[1].var].unseen
    /\ cl \in Range(varInfos[cl[2].var].watched)

C33_OneRulePerAtom ==
  LET lhss == DOMAIN eqInfos
      unify(l, m) == l[3] = m[3] /\ (l[4] = m[4] \/ l[4] = "x" \/ m[4] = "x")
      generalizations(atom) == {l \in lhss : l[3] = atom[3] /\ l[4] \in {atom[4], "x"}}
      Atoms == {<<"atom", TRUE, f, t>> : f \in 1..5, t \in {"x", "c", "d"}}
  IN  /\ \A l, m \in lhss : l # m => ~unify(l, m)
      /\ \A atom \in Atoms : Cardinality(generalizations(atom)) <= 1

\* C33 witness: a scan has stored a definition and turned down a later
\* candidate whose left-hand side unifies with the stored one without being
\* the same atom.
C33_Witness ==
  /\ aig_pc = "scanned"
  /\ \E i, j \in 1..Len(aigUnits) :
       LET first == tryGetEquiv(InlinerUnits[aigUnits[i]])
           later == tryGetEquiv(InlinerUnits[aigUnits[j]])
       IN  /\ i < j
           /\ ~InlinerUnits[aigUnits[i]].isClause /\ first.ok
           /\ ~InlinerUnits[aigUnits[j]].isClause /\ later.ok
           /\ [first.lhs EXCEPT ![2] = TRUE] \in DOMAIN eqInfos
           /\ [later.lhs EXCEPT ![2] = TRUE] \notin DOMAIN eqInfos
           /\ first.lhs[3] = later.lhs[3]
           /\ first.lhs[4] # later.lhs[4]

\* C34: a run of the loop that ends with REFUTATION ends so after a solve()
\* that returned UNSATISFIABLE for the size it ends at; a solve() that gave
\* up never yields REFUTATION.
C34_RefutationOnlyOnUnsat ==
  (pc = "done" /\ result = "REFUTATION" /\ solved # <<>>) =>
    /\ solved[Len(solved)].size = modelSize
    /\ solved[Len(solved)].status = "UNSATISFIABLE"

\* C35: whenever the inner solver holds a satisfiable set of clauses and
\* assumptions, the assignment of getAssignment (the assumed polarity of a
\* variable with an assumption, else the pure polarity of a pure variable,
\* else the value the inner solver's model gives) satisfies every clause
\* that was passed to addClauses and every assumption on the stack.
C35_ModelCorrect ==
  \A A \in SUBSET (1..NumVars) :
    SatisfiedBy(A, innerClauses, Range(innerAssumptions)) =>
      LET getAssignment(var) ==
            LET vi == varInfos[var]
            IN  IF vi.hasAssumption THEN vi.assumedPolarity
                ELSE IF ~vi.unseen /\ vi.isPure THEN vi.isPurePositive
                ELSE var \in A
      IN  /\ \A cl \in addedClauses :
               \E i \in 1..Len(cl) : getAssignment(cl[i].var) = cl[i].polarity
          /\ \A i \in 1..Len(assumptions) :
               getAssignment(assumptions[i].var) = assumptions[i].polarity

\* C36: whenever a public operation has returned, a variable with a clause on
\* its watched list is pure, not unseen, has no unit clause and occurs in
\* each of these clauses with its pure polarity; a variable that is pure and
\* has no unit clause has a clause on its list; a call leaves the queue of
\* unprocessed clauses empty; and a clause is parked on one list only: no
\* call adds an entry for a clause to the watched lists, except addClauses
\* one entry for each clause it was given.
C36_WatchedLists ==
  /\ [](\A v \in DOMAIN varInfos :
          LET vi == varInfos[v]
          IN  /\ vi.watched # <<>> => (vi.isPure /\ ~vi.unseen /\ vi.unit = NoUnit)
              /\ \A cl \in Range(vi.watched) :
                   \E i \in 1..Len(cl) : cl[i] = Lit(v, vi.isPurePositive)
              /\ (vi.isPure /\ ~vi.unseen /\ vi.unit = NoUnit) => vi.watched # <<>>)
  /\ [](assumptions = <<>> =>
          \A cit \in Batches :
            processUnprocessed([vars |-> varInfos, unprocessed |-> cit,
                                toBeAdded |-> <<>>]).unprocessed = <<>>)
  /\ [][\A cl \in SATClauses :
          LET Entries(vis) ==
                UNION {{<<v, i>> : i \in {j \in 1..Len(vis[v].watched) :
                                             vis[v].watched[j] = cl}} :
                         v \in DOMAIN vis}
              given == IF lastCall'.op = "addClauses"
                       THEN Cardinality({i \in 1..Len(lastCall'.clauses) :
                                           lastCall'.clauses[i] = cl})
                       ELSE 0
          IN  Cardinality(Entries(varInfos')) <= Cardinality(Entries(varInfos)) + given]_vars

\* C36 witness: a call has returned with a clause parked on a pure variable
\* next to a variable that was made non-pure, whose list is empty.
C36_Witness ==
  \E v, w \in DOMAIN varInfos :
    /\ varInfos[v].watched # <<>> /\ varInfos[v].isPure /\ ~varInfos[v].unseen
    /\ ~varInfos[w].isPure /\ ~varInfos[w].unseen /\ varInfos[w].watched = <<>>
    /\ innerClauses # {}

\* C37: in every drain of the queue that a reachable state admits, by
\* addClauses or by addAssumption on the path of makeVarNonPure, the second
\* tryWatchOrSubsume after a successful sweep returns true (the clause is
\* watched or subsumed, never dropped), and makeVarNonPure is called on a
\* variable that is pure and not unseen and whose eager sweep fails.
C37_AssertionsHold ==
  LET MakeOk(S, var) ==
        /\ S.vars[var].isPure /\ ~S.vars[var].unseen
        /\ ~tryToSweepPure(S, var, TRUE).res
      UnitOk(S, cl) ==
        LET var == cl[1].var
            vi == S.vars[var]
            r == tryToSweepPure([S EXCEPT !.vars[var].unit = cl], var, FALSE)
        IN  (/\ vi.unit = NoUnit /\ ~vi.unseen /\ vi.isPure
             /\ vi.isPurePositive # cl[1].polarity /\ ~r.res) => MakeOk(r.st, var)
      RECURSIVE UnpureOk(_, _)
      UnpureOk(S, toUnpure) ==
        \/ toUnpure = <<>>
        \/ LET var == toUnpure[Len(toUnpure)]
           IN  /\ MakeOk(S, var)
               /\ UnpureOk(makeVarNonPure(S, var), SubSeq(toUnpure, 1, Len(toUnpure) - 1))
      RECURSIVE LitsOk(_, _, _, _)
      LitsOk(S, cl, i, toUnpure) ==
        IF i > Len(cl) THEN UnpureOk([S EXCEPT !.toBeAdded = Append(@, cl)], toUnpure)
        ELSE LET var == cl[i].var
                 r == tryToSweepPure(S, var, FALSE)
             IN  IF ~S.vars[var].isPure THEN LitsOk(S, cl, i + 1, toUnpure)
                 ELSE IF r.res THEN tryWatchOrSubsume(r.st, cl, 0).res
                 ELSE LitsOk(r.st, cl, i + 1, Append(toUnpure, var))
      RECURSIVE DrainOk(_)
      DrainOk(S) ==
        \/ S.unprocessed = <<>>
        \/ LET n == Len(S.unprocessed)
               cl == S.unprocessed[n]
               S0 == [S EXCEPT !.unprocessed = SubSeq(@, 1, n - 1)]
               r == tryWatchOrSubsume(S0, cl, 0)
           IN  IF Len(cl) = 1
               THEN UnitOk(S0, cl) /\ DrainOk(processUnit(S0, cl))
               ELSE IF r.res THEN DrainOk(r.st)
               ELSE LitsOk(r.st, cl, 1, <<>>) /\ DrainOk(SweepLits(r.st, cl, 1, <<>>))
  IN  /\ assumptions = <<>> =>
           \A cit \in Batches :
             DrainOk([vars |-> varInfos, unprocessed |-> cit, toBeAdded |-> <<>>])
      /\ \A lit \in Literals :
           LET var == lit.var
               vi == varInfos[var]
               S0 == [vars |-> [varInfos EXCEPT ![var] =
                                  [@ EXCEPT !.hasAssumption = TRUE,
                                            !.assumedPolarity = lit.polarity]],
                      unprocessed |-> <<>>, toBeAdded |-> <<>>]
               sweep == tryToSweepPure(S0, var, FALSE)
           IN  (/\ ~vi.hasAssumption /\ vi.unit = NoUnit /\ ~vi.unseen /\ vi.isPure
                /\ vi.isPurePositive # lit.polarity /\ ~sweep.res)
                 => /\ MakeOk(sweep.st, var)
                    /\ DrainOk(makeVarNonPure(sweep.st, var))

\* C38: inside the loop every literal on the pending list has a variable v
\* with 1 <= v < n, n the variable count given to ensureVarCount for the
\* size, and every literal of a function symmetry clause lies in the block
\* of the function the clause is about.
C38_LiteralsInBlocks ==
  (InLoop /\ modelSize <= MaxCheckedSize) =>
    /\ \A c \in Range(clausesToBeAdded) : \A l \in c.lits : 1 <= l.var /\ l.var < varCnt
    /\ pc \in {"totality", "solve"} =>
         LET n == Len(Constants)
         IN  \A s \in 1..modelSize :
               (n > 0 /\ n < s /\ s \div n < Len(NonConstants)) =>
                 LET F == NonConstants[(s \div n) + 1]
                     cl == SymmetryClauses(s)[1]
                 IN  \A i \in 1..Len(cl) :
                       /\ f_offsets[F] <= cl[i].var
                       /\ cl[i].var < f_offsets[F]
                                        + Pow(modelSize, FunctionBlockExp(Prb.funArity[F]))

====
